---- MODULE Spec2Model ----
(***************************************************************************)
(* Zone01 GraphQL profile dashboard: the authentication service            *)
(* (services/auth.js), the GraphQL service (services/graphql.js and its    *)
(* earlier revision unnamed/part_001), the profile component               *)
(* (components/profile.js) and the application controller (app.js).        *)
(***************************************************************************)
EXTENDS Integers, Sequences, FiniteSets, TLC

(***************************************************************************)
(* Text.  A string is a sequence of one-character strings.                 *)
(***************************************************************************)

\* The characters of the standard base64 alphabet, as window.atob reads them.
StdAlphabet ==
    << "A","B","C","D","E","F","G","H","I","J","K","L","M","N","O","P",
       "Q","R","S","T","U","V","W","X","Y","Z","a","b","c","d","e","f",
       "g","h","i","j","k","l","m","n","o","p","q","r","s","t","u","v",
       "w","x","y","z","0","1","2","3","4","5","6","7","8","9","+","/" >>

\* The base64url alphabet a JWT segment is written in (RFC 7515): the same
\* but for the last two characters.
UrlAlphabet == [i \in 1..64 |-> IF i = 63 THEN "-" ELSE IF i = 64 THEN "_" ELSE StdAlphabet[i]]

\* str.startsWith(prefix)
StartsWith(str, prefix) ==
    /\ Len(str) >= Len(prefix)
    /\ SubSeq(str, 1, Len(prefix)) = prefix

\* str.endsWith(suffix)
EndsWith(str, suffix) ==
    /\ Len(str) >= Len(suffix)
    /\ SubSeq(str, Len(str) - Len(suffix) + 1, Len(str)) = suffix

\* str.split('.'): the segments between the dots, in order.
RECURSIVE Split(_)
Split(str) ==
    IF \A i \in 1..Len(str) : str[i] # "."
    THEN << str >>
    ELSE LET d == CHOOSE i \in 1..Len(str) :
                      str[i] = "." /\ \A j \in 1..(i - 1) : str[j] # "."
         IN  << SubSeq(str, 1, d - 1) >> \o Split(SubSeq(str, d + 1, Len(str)))

\* segments.join('.')
RECURSIVE Join(_)
Join(segs) ==
    IF Len(segs) = 0 THEN << >>
    ELSE IF Len(segs) = 1 THEN segs[1]
    ELSE segs[1] \o << "." >> \o Join(Tail(segs))

\* '='.repeat(n)
RECURSIVE Repeat(_, _)
Repeat(c, n) == IF n <= 0 THEN << >> ELSE << c >> \o Repeat(c, n - 1)

(***************************************************************************)
(* base64.  Bytes are numbers 0..255, a sextet is a number 0..63.          *)
(***************************************************************************)

\* The sextets of a byte string, the last one padded with zero bits.
RECURSIVE BytesToSextets(_)
BytesToSextets(bytes) ==
    IF Len(bytes) = 0 THEN << >>
    ELSE IF Len(bytes) = 1 THEN
        << bytes[1] \div 4, (bytes[1] % 4) * 16 >>
    ELSE IF Len(bytes) = 2 THEN
        << bytes[1] \div 4,
           (bytes[1] % 4) * 16 + bytes[2] \div 16,
           (bytes[2] % 16) * 4 >>
    ELSE
        << bytes[1] \div 4,
           (bytes[1] % 4) * 16 + bytes[2] \div 16,
           (bytes[2] % 16) * 4 + bytes[3] \div 64,
           bytes[3] % 64 >> \o BytesToSextets(SubSeq(bytes, 4, Len(bytes)))

\* The bytes of a sextet string: 4 sextets give 3 bytes, a tail of 3 gives 2,
\* a tail of 2 gives 1; the bits left over are dropped.
RECURSIVE SextetsToBytes(_)
SextetsToBytes(sx) ==
    IF Len(sx) <= 1 THEN << >>
    ELSE IF Len(sx) = 2 THEN
        << sx[1] * 4 + sx[2] \div 16 >>
    ELSE IF Len(sx) = 3 THEN
        << sx[1] * 4 + sx[2] \div 16,
           (sx[2] % 16) * 16 + sx[3] \div 4 >>
    ELSE
        << sx[1] * 4 + sx[2] \div 16,
           (sx[2] % 16) * 16 + sx[3] \div 4,
           (sx[3] % 4) * 64 + sx[4] >> \o SextetsToBytes(SubSeq(sx, 5, Len(sx)))

\* The base64url text of a byte string, unpadded, as a JWT issuer writes a
\* segment.
Base64UrlEncode(bytes) ==
    LET sx == BytesToSextets(bytes)
    IN  [i \in 1..Len(sx) |-> UrlAlphabet[sx[i] + 1]]

\* The index (0..63) of a character in the standard alphabet.
StdIndex(c) == (CHOOSE i \in 1..64 : StdAlphabet[i] = c) - 1

\* window.atob(text): up to two trailing '=' are dropped when the length is
\* a multiple of 4; a character outside the standard alphabet, or a length
\* of 4n+1, raises InvalidCharacterError (ok = FALSE).
atob(text) ==
    LET n == Len(text)
        pad == IF n % 4 = 0 /\ n >= 2 /\ text[n] = "=" /\ text[n - 1] = "=" THEN 2
               ELSE IF n % 4 = 0 /\ n >= 1 /\ text[n] = "=" THEN 1
               ELSE 0
        data == SubSeq(text, 1, n - pad)
        valid == /\ Len(data) % 4 # 1
                 /\ \A i \in 1..Len(data) : \E k \in 1..64 : StdAlphabet[k] = data[i]
    IN  IF valid
        THEN [ok |-> TRUE, val |-> SextetsToBytes([i \in 1..Len(data) |-> StdIndex(data[i])])]
        ELSE [ok |-> FALSE, val |-> << >>]

(***************************************************************************)
(* JSON.  A value is [kind, text, fields]: the kind of the value, the text *)
(* of a scalar, and the <<key, scalar text>> pairs of an object.           *)
(***************************************************************************)

JNull == [kind |-> "null", text |-> "", fields |-> {}]
JNumber(t) == [kind |-> "number", text |-> t, fields |-> {}]
JObject(fs) == [kind |-> "object", text |-> "", fields |-> fs]

\* obj.key, "" when the value is no object or has no such key (undefined).
Field(v, key) ==
    IF v.kind = "object" /\ \E p \in v.fields : p[1] = key
    THEN (CHOOSE p \in v.fields : p[1] = key)[2]
    ELSE ""

\* The JSON documents of the model, as UTF-8 bytes, with the values they
\* denote.
DocSub == << 123,34,115,117,98,34,58,49,125 >>                          \* {"sub":1}
DocSubName == << 123,34,115,117,98,34,58,49,44,34,110,34,58,34,63,34,125 >> \* {"sub":1,"n":"?"}
DocEmpty == << 123,125 >>                                               \* {}
DocOne == << 49 >>                                                      \* 1
DocNull == << 110,117,108,108 >>                                        \* null
DocX == << 120 >>                                                       \* x (no JSON)
DocHeader == << 123,34,97,34,58,49,125 >>                               \* {"a":1}
DocExp1 == << 123,34,115,117,98,34,58,49,44,34,101,120,112,34,58,49,125 >> \* {"sub":1,"exp":1}
DocExp3 == << 123,34,115,117,98,34,58,49,44,34,101,120,112,34,58,51,125 >> \* {"sub":1,"exp":3}
DocError ==                                      \* {"error":"Could not decode token"}
    << 123,34,101,114,114,111,114,34,58,34,67,111,117,108,100,32,110,111,116,32,
       100,101,99,111,100,101,32,116,111,107,101,110,34,125 >>

\* The value decodeJWT returns when decoding fails.
ErrorMarker == JObject({ << "error", "Could not decode token" >> })

JSONDocs ==
    { [bytes |-> DocSub, value |-> JObject({ << "sub", "1" >> })],
      [bytes |-> DocSubName, value |-> JObject({ << "sub", "1" >>, << "n", "?" >> })],
      [bytes |-> DocExp1, value |-> JObject({ << "sub", "1" >>, << "exp", "1" >> })],
      [bytes |-> DocExp3, value |-> JObject({ << "sub", "1" >>, << "exp", "3" >> })],
      [bytes |-> DocEmpty, value |-> JObject({})],
      [bytes |-> DocHeader, value |-> JObject({ << "a", "1" >> })],
      [bytes |-> DocOne, value |-> JNumber("1")],
      [bytes |-> DocNull, value |-> JNull],
      [bytes |-> DocError, value |-> ErrorMarker] }

\* JSON.parse(bytes): SyntaxError (ok = FALSE) on a text that is no JSON
\* document.
JSONParse(bytes) ==
    IF \E d \in JSONDocs : d.bytes = bytes
    THEN [ok |-> TRUE, val |-> (CHOOSE d \in JSONDocs : d.bytes = bytes).value]
    ELSE [ok |-> FALSE, val |-> JNull]

\* JSON.stringify(value)
JSONStringify(value) == (CHOOSE d \in JSONDocs : d.value = value).bytes

(***************************************************************************)
(* AuthService.decodeJWT                                                   *)
(***************************************************************************)

\* decodeJWT(token): every exception inside is caught and gives the error
\* marker.  A missing token (null) is the empty string here: both end in the
\* catch block.
decodeJWT(token) ==
    LET parts == Split(token)
        payload == parts[2]
        paddedPayload == payload \o Repeat("=", (4 - (Len(payload) % 4)) % 4)
        decoded == atob(paddedPayload)
    IN  IF Len(parts) # 3 THEN ErrorMarker
        ELSE IF ~decoded.ok THEN ErrorMarker
        ELSE IF ~JSONParse(decoded.val).ok THEN ErrorMarker
        ELSE JSONParse(decoded.val).val

(***************************************************************************)
(* The credential exchange: responses, bodies and error messages.          *)
(***************************************************************************)

\* A JWT text: header, payload and signature joined by dots.
Jwt(payloadBytes) ==
    Join(<< Base64UrlEncode(DocHeader), Base64UrlEncode(payloadBytes), << "s", "i", "g" >> >>)

TokenSub == Jwt(DocSub)
TokenSubName == Jwt(DocSubName)
TokenEmpty == Jwt(DocEmpty)

\* Tokens with an expiry time (exp, in units of the clock of the model).
TokenExp1 == Jwt(DocExp1)
TokenExp3 == Jwt(DocExp3)

\* The bearer tokens the remote service hands out in the model.
Tokens == { TokenSub, TokenSubName, TokenEmpty }

\* The field names extractToken is specified to look under.
TokenFieldNames == { "token", "access_token", "jwt", "authToken" }

KeyChars ==
    [ token |-> << "t","o","k","e","n" >>,
      access_token |-> << "a","c","c","e","s","s","_","t","o","k","e","n" >>,
      jwt |-> << "j","w","t" >>,
      authToken |-> << "a","u","t","h","T","o","k","e","n" >>,
      data |-> << "d","a","t","a" >>,
      other |-> << "o","t","h","e","r" >> ]

\* A body value is a JSON string, null, or an object holding one string
\* under a path of one or two keys: [kind, path, str].
BodyString(str) == [kind |-> "string", path |-> << >>, str |-> str]
BodyObject(path, str) == [kind |-> "object", path |-> path, str |-> str]
BodyNull == [kind |-> "null", path |-> << >>, str |-> << >>]

BodyPaths ==
    { << k >> : k \in TokenFieldNames \cup { "other" } }
        \cup { << "data", k >> : k \in TokenFieldNames \cup { "other" } }

BodyValues ==
    { BodyString(t) : t \in Tokens \cup { << >> } }
        \cup { BodyObject(p, t) : p \in BodyPaths, t \in Tokens }
        \cup { BodyNull }

Quoted(str) == << "\"" >> \o str \o << "\"" >>

\* The JSON text of a body value.
Serialize(v) ==
    IF v.kind = "string" THEN Quoted(v.str)
    ELSE IF v.kind = "null" THEN << "n","u","l","l" >>
    ELSE IF Len(v.path) = 1 THEN
        << "{" >> \o Quoted(KeyChars[v.path[1]]) \o << ":" >> \o Quoted(v.str) \o << "}" >>
    ELSE
        << "{" >> \o Quoted(KeyChars[v.path[1]]) \o << ":", "{" >>
            \o Quoted(KeyChars[v.path[2]]) \o << ":" >> \o Quoted(v.str) \o << "}", "}" >>

\* JSON.parse(text) of a response body: the value whose JSON text it is,
\* SyntaxError (ok = FALSE) when it is none.
ParseBody(text) ==
    IF \E v \in BodyValues : Serialize(v) = text
    THEN [ok |-> TRUE, val |-> CHOOSE v \in BodyValues : Serialize(v) = text]
    ELSE [ok |-> FALSE, val |-> BodyNull]

NotJson == << "<","h","t","m","l",">" >>

\* The response bodies of the model: a raw token, and the JSON texts.
Bodies == Tokens \cup { Serialize(v) : v \in BodyValues } \cup { NotJson, << >> }

\* Error messages are sequences of words.
MsgInvalidCredentials == << "Invalid", "username/email", "or", "password" >>
MsgForbidden == << "Access", "forbidden", "-", "check", "your", "account", "permissions" >>
MsgAuthFailed(status, statusText) ==
    << "Authentication", "failed:", ToString(status) >> \o statusText
MsgInvalidFormat == << "Invalid", "response", "format" >>
MsgNoToken == << "Authentication", "succeeded", "but", "no", "token", "received" >>
MsgFailedToFetch == << "Failed", "to", "fetch" >>

\* A response of the sign-in endpoint; net = TRUE is a fetch that rejected.
Response(status, statusText, body) ==
    [net |-> FALSE, status |-> status, statusText |-> statusText, body |-> body]
NetworkFailure == [net |-> TRUE, status |-> 0, statusText |-> << >>, body |-> << >>]

ErrorStatuses == { 401, 403, 404, 500 }
StatusText(status) ==
    IF status = 401 THEN << "Unauthorized" >>
    ELSE IF status = 403 THEN << "Forbidden" >>
    ELSE IF status = 404 THEN << "Not", "Found" >>
    ELSE IF status = 500 THEN << "Internal", "Server", "Error" >>
    ELSE << "OK" >>

AuthResponses ==
    { NetworkFailure }
        \cup { Response(st, StatusText(st), NotJson) : st \in ErrorStatuses }
        \cup { Response(200, StatusText(200), b) : b \in Bodies }

\* response.ok
ResponseOk(resp) == resp.status >= 200 /\ resp.status <= 299

(***************************************************************************)
(* AuthService                                                             *)
(***************************************************************************)

\* extractToken(data): the first truthy of the probed fields, else null
\* (the empty text).  Reading a field of null raises TypeError (ok = FALSE).
extractToken(data) ==
    LET get(p) == IF data.kind = "object" /\ data.path = p THEN data.str ELSE << >>
        probes == << get(<< "token" >>), get(<< "access_token" >>), get(<< "jwt" >>),
                     get(<< "authToken" >>), get(<< "data", "token" >>),
                     get(<< "data", "access_token" >>), get(<< "data", "jwt" >>) >>
    IN  IF data.kind = "null" THEN [ok |-> FALSE, val |-> << >>]
        ELSE IF \E i \in 1..Len(probes) : probes[i] # << >>
        THEN [ok |-> TRUE,
              val |-> probes[CHOOSE i \in 1..Len(probes) :
                                 probes[i] # << >> /\ \A j \in 1..(i - 1) : probes[j] = << >>]]
        ELSE [ok |-> TRUE, val |-> << >>]

\* The outcome of authenticate(identifier, password) on a response of the
\* endpoint: [ok, token, error], the token it returns or the message of the
\* Error it throws.
Resolved(tok) == [ok |-> TRUE, token |-> tok, error |-> << >>]
Thrown(msg) == [ok |-> FALSE, token |-> << >>, error |-> msg]

\* Lines 38-50: the error a response status raises, none (the empty
\* message) for a 2xx response.
StatusError_generic401(resp) ==
    IF resp.status = 403 THEN MsgForbidden
    ELSE IF ~ResponseOk(resp) THEN MsgAuthFailed(resp.status, resp.statusText)
    ELSE << >>

StatusError(resp) ==
    IF resp.status = 401 THEN MsgInvalidCredentials
    ELSE IF resp.status = 403 THEN MsgForbidden
    ELSE IF ~ResponseOk(resp) THEN MsgAuthFailed(resp.status, resp.statusText)
    ELSE << >>

authenticateOutcome(resp) ==
    LET data == resp.body
        isRaw == StartsWith(data, << "e", "y", "J" >>)
        isQuoted == StartsWith(data, << "\"", "e", "y", "J" >>) /\ EndsWith(data, << "\"" >>)
        parsed == ParseBody(data)
        extracted == extractToken(parsed.val)
        tok == IF isRaw THEN data
               ELSE IF isQuoted THEN SubSeq(data, 2, Len(data) - 1)
               ELSE extracted.val
    IN  IF resp.net THEN Thrown(MsgFailedToFetch)
        ELSE IF StatusError(resp) # << >> THEN Thrown(StatusError(resp))
        ELSE IF ~isRaw /\ ~isQuoted /\ (~parsed.ok \/ ~extracted.ok) THEN Thrown(MsgInvalidFormat)
        ELSE IF tok = << >> THEN Thrown(MsgNoToken)
        ELSE Resolved(tok)

\* A JavaScript value is truthy.
Truthy(v) == v.kind = "object" \/ (v.kind = "number" /\ v.text # "0")

(***************************************************************************)
(* GraphQLService.query                                                    *)
(***************************************************************************)

\* A response of the GraphQL endpoint.  The body is JSON (json = TRUE) with
\* a data member and an errors member, the list of the errors' messages.
GqlBody(json, data, errors) == [json |-> json, data |-> data, errors |-> errors]
GqlResponse(status, body) == [net |-> FALSE, status |-> status, body |-> body]
GqlNetworkFailure == [net |-> TRUE, status |-> 0, body |-> GqlBody(FALSE, "none", << >>)]

MsgHttpError(status) == << "HTTP", "error!", "status:", ToString(status) >>
MsgGraphQLError(message) == << "GraphQL", "error:" >> \o message
MsgUnexpectedToken == << "Unexpected", "token" >>

QueryResolved(body) == [ok |-> TRUE, result |-> body, error |-> << >>]
QueryThrown(msg) == [ok |-> FALSE, result |-> GqlBody(FALSE, "none", << >>), error |-> msg]

\* The mutant returns the body without looking at its errors.
query_ignoresErrors(resp) ==
    IF resp.net THEN QueryThrown(MsgFailedToFetch)
    ELSE IF ~ResponseOk(resp) THEN QueryThrown(MsgHttpError(resp.status))
    ELSE IF ~resp.body.json THEN QueryThrown(MsgUnexpectedToken)
    ELSE QueryResolved(resp.body)

\* query(query, variables) on a response of the endpoint: the body it
\* resolves with, or the message of the Error it rejects with.
query(resp) ==
    IF resp.net THEN QueryThrown(MsgFailedToFetch)
    ELSE IF ~ResponseOk(resp) THEN QueryThrown(MsgHttpError(resp.status))
    ELSE IF ~resp.body.json THEN QueryThrown(MsgUnexpectedToken)
    ELSE IF Len(resp.body.errors) > 0 THEN QueryThrown(MsgGraphQLError(resp.body.errors[1]))
    ELSE QueryResolved(resp.body)

(***************************************************************************)
(* GraphQLService.getUserRank                                              *)
(***************************************************************************)

\* The two revisions of the GraphQLService class in the repository: the one
\* index.html loads, and the earlier one.
Revisions == { "services/graphql.js", "unnamed/part_001" }

\* The class of the revision defines getRankName.  services/graphql.js calls
\* this.getRankName at lines 758, 870, 882, 930 and 960 and defines it
\* nowhere: the call raises TypeError.
HasGetRankName(rev) == rev = "unnamed/part_001"

\* The mutant compares with > where getRankName compares with >=.
getRankName_strict(level) ==
    IF level > 60 THEN "Senior Architect"
    ELSE IF level > 50 THEN "Lead Developer"
    ELSE IF level > 40 THEN "Senior Developer"
    ELSE IF level > 30 THEN "Assistant Developer"
    ELSE IF level > 25 THEN "Junior Developer"
    ELSE IF level > 20 THEN "Developer"
    ELSE IF level > 15 THEN "Advanced Programmer"
    ELSE IF level > 10 THEN "Programmer"
    ELSE IF level > 5 THEN "Junior Programmer"
    ELSE IF level > 2 THEN "Apprentice"
    ELSE "Beginner"

\* getRankName(level)
getRankName(level) ==
    IF level >= 60 THEN "Senior Architect"
    ELSE IF level >= 50 THEN "Lead Developer"
    ELSE IF level >= 40 THEN "Senior Developer"
    ELSE IF level >= 30 THEN "Assistant Developer"
    ELSE IF level >= 25 THEN "Junior Developer"
    ELSE IF level >= 20 THEN "Developer"
    ELSE IF level >= 15 THEN "Advanced Programmer"
    ELSE IF level >= 10 THEN "Programmer"
    ELSE IF level >= 5 THEN "Junior Programmer"
    ELSE IF level >= 2 THEN "Apprentice"
    ELSE "Beginner"

\* A grade is [fl, fr]: its floor and whether it has a fractional part.
Grade(fl, fr) == [fl |-> fl, fr |-> fr]

\* grade > 1
GradeAboveOne(g) == g.fl > 1 \/ (g.fl = 1 /\ g.fr)

\* A number that orders the grades as their values do.
GradeKey(g) == 2 * g.fl + (IF g.fr THEN 1 ELSE 0)

\* list.slice(0, n), and the rows a query with limit n returns
Take(list, n) == SubSeq(list, 1, IF Len(list) < n THEN Len(list) ELSE n)

\* The mutant's sort puts the later of two elements of equal keys first.
SortDesc_laterFirst(list, keys) ==
    LET n == Len(list)
        rank(i) == 1 + Cardinality({ j \in 1..n :
                        keys[j] > keys[i] \/ (keys[j] = keys[i] /\ j > i) })
    IN  [k \in 1..n |-> list[CHOOSE i \in 1..n : rank(i) = k]]

\* list.sort((a, b) => key(b) - key(a)), where keys[i] is the key of
\* list[i].  Array.prototype.sort is stable: of two elements of equal keys
\* the earlier one stays first.
SortDesc(list, keys) ==
    LET n == Len(list)
        rank(i) == 1 + Cardinality({ j \in 1..n :
                        keys[j] > keys[i] \/ (keys[j] = keys[i] /\ j < i) })
    IN  [k \in 1..n |-> list[CHOOSE i \in 1..n : rank(i) = k]]

\* sort((a, b) => b.grade - a.grade) and order_by: {grade: desc}
ByGradeDesc(list) == SortDesc(list, [i \in 1..Len(list) |-> GradeKey(list[i].grade)])

\* order_by: {amount: desc}
ByAmountDesc(list) == SortDesc(list, [i \in 1..Len(list) |-> list[i].amount])

RECURSIVE SumAmounts(_)
SumAmounts(list) == IF list = << >> THEN 0 ELSE Head(list).amount + SumAmounts(Tail(list))

RankLimit == 5
AllProgressLimit == 100
TopGrades == 5
TopHighestGrades == 10
MinLevel == 10
AmountPerLevel == 1000
FirstLevelXP == 50000
LevelCap == 100

\* The rows the endpoint returns for the queries of getUserRank, from the
\* user's progress rows [grade, marker] and transaction rows [amount, kind]:
\* marker and kind "level" say that the row matches the level/rank filters.
ServerRows(q, progress, transactions) ==
    IF q = "progress" THEN progress
    ELSE IF q = "levelProgress"
    THEN Take(ByGradeDesc(SelectSeq(progress, LAMBDA p : p.marker)), RankLimit)
    ELSE IF q = "levelTransactions"
    THEN Take(ByAmountDesc(SelectSeq(transactions, LAMBDA t : t.kind = "level")), RankLimit)
    ELSE IF q = "allProgress"
    THEN Take(ByGradeDesc(progress), AllProgressLimit)
    ELSE IF q = "xp"
    THEN SelectSeq(transactions, LAMBDA t : t.kind = "xp")
    ELSE << >>

\* What a step of getUserRank does next: return a level found by a
\* strategy, or go on.
Found(level, source) == [found |-> TRUE, level |-> level, source |-> source]
NotFound == [found |-> FALSE, level |-> 0, source |-> "none"]

\* Lines 738-766: the highest grade above 1 of the existing progress,
\* accepted from level 10.
FromExistingProgress(existingProgress) ==
    LET sortedByGrade ==
            Take(ByGradeDesc(SelectSeq(existingProgress,
                    LAMBDA p : p.grade # Grade(0, FALSE) /\ GradeAboveOne(p.grade))), TopGrades)
    IN  IF sortedByGrade # << >> /\ sortedByGrade[1].grade.fl >= MinLevel
        THEN Found(sortedByGrade[1].grade.fl, "existing_progress")
        ELSE NotFound

\* Lines 864-874: the first level/rank progress row.
FromLevelProgress(levelProgress) ==
    IF levelProgress # << >>
    THEN Found(IF levelProgress[1].grade.fl # 0 THEN levelProgress[1].grade.fl ELSE 1, "progress")
    ELSE NotFound

\* Lines 876-886: the first level/rank transaction.
FromLevelTransactions(levelTransactions) ==
    IF levelTransactions # << >>
    THEN Found(IF levelTransactions[1].amount \div AmountPerLevel # 0
               THEN levelTransactions[1].amount \div AmountPerLevel ELSE 1, "transaction")
    ELSE NotFound

\* Lines 915-937: the highest grade above 1 of all progress, accepted when
\* its floor is above 1.
FromHighestGrade(allProgress) ==
    LET highestGrades ==
            Take(ByGradeDesc(SelectSeq(allProgress, LAMBDA p : GradeAboveOne(p.grade))),
                 TopHighestGrades)
    IN  IF highestGrades # << >> /\ highestGrades[1].grade.fl > 1
        THEN Found(highestGrades[1].grade.fl, "highest_grade")
        ELSE NotFound

\* Lines 946-954: the level-up loop.
RECURSIVE LevelUp(_, _, _)
LevelUp(calculatedLevel, xpRequired, remainingXP) ==
    IF remainingXP >= xpRequired /\ calculatedLevel < LevelCap
    THEN LevelUp(calculatedLevel + 1, (xpRequired * 6) \div 5, remainingXP - xpRequired)
    ELSE calculatedLevel

\* Lines 941-964: the level simulated from the total XP.
FromTotalXP(xpData) == Found(LevelUp(1, FirstLevelXP, SumAmounts(xpData)), "calculated")

\* The object a return statement of getUserRank builds.
RankResult(level, source) == [level |-> level, rank |-> getRankName(level), source |-> source]

\* Line 968: the object the catch block returns.
RankFallback == [level |-> 1, rank |-> "Beginner", source |-> "error"]

(***************************************************************************)
(* State                                                                   *)
(***************************************************************************)

VARIABLES
    token,        \* AuthService.token, the empty text for null
    user,         \* AuthService.user, a JSON value (JNull for null)
    ssToken,      \* sessionStorage 'authToken', the empty text when absent
    ssUser,       \* sessionStorage 'userInfo' (JSON bytes), empty when absent
    authCall,     \* the last AuthService call: [op, resp, outcome]
    jwtIn,        \* decodeJWT: the argument
    jwtOut,       \* decodeJWT: [done, val]
    queryIn,      \* query: the response of the endpoint
    queryOut,     \* query: [done, val]
    rankIn,       \* getUserRank: [rev, progress, transactions], the revision
                  \* of the class and the user's rows at the endpoint
    rankPc,       \* getUserRank: the await it stands at, or how it settled
    rankPending,  \* getUserRank: the queries of its Promise.all still pending
    rankData,     \* getUserRank: the rows its Promise.all has received
    rankThrown,   \* getUserRank: the exception raised in its try block
    rankOut,      \* getUserRank: the object it resolved with
    currentSection, \* App.currentSection
    overlay,      \* whether the loading overlay is visible
    loadPc,       \* the profile load: the await it stands at, or how it ended
    ops,          \* the operations of getUserProfile's Promise.all but rank
    failed,       \* the requests of the load, but rank's, that have failed
    panels,       \* the panels and graphs rendered from the profile data
    errorBlock,   \* whether loadProfile has written its error block
    shown,        \* the kinds of the messages shown by showError/showSuccess
    logoutTimer,  \* whether showProfile's setTimeout(handleLogout) is pending
    helperIn,     \* a data helper under call: its argument
    helperOut,    \* a data helper under call: [done, val]
    session,      \* the login that made the token the service holds, 0 for none
    logins,       \* the number of logins submitted so far
    loginPc,      \* handleLogin: "idle", or "pending" at its await
    profileTimers, \* the pending setTimeout(showProfile) of handleLogin
    loads,        \* the calls of loadProfile at their await
    pendingLogouts, \* the pending setTimeout(handleLogout) of showProfile
    rendered,     \* for each panel, the session whose data it holds, 0 for none
    loginError    \* the message shown in #login-error, empty when it is hidden

authVars == << token, user, ssToken, ssUser, authCall >>
jwtVars == << jwtIn, jwtOut >>
queryVars == << queryIn, queryOut >>
rankVars == << rankIn, rankPc, rankPending, rankData, rankThrown, rankOut >>
loadVars ==
    << currentSection, overlay, loadPc, ops, failed, panels, errorBlock, shown, logoutTimer >>
helperVars == << helperIn, helperOut >>
sessionVars ==
    << session, logins, loginPc, profileTimers, loads, pendingLogouts, rendered, loginError >>
vars == << authVars, jwtVars, queryVars, rankVars, loadVars, helperVars, sessionVars >>

\* The variables a part of the model leaves alone.
notAuthVars == << jwtVars, queryVars, rankVars, loadVars, helperVars, sessionVars >>
notJwtVars == << authVars, queryVars, rankVars, loadVars, helperVars, sessionVars >>
notQueryVars == << authVars, jwtVars, rankVars, loadVars, helperVars, sessionVars >>
notRankVars == << authVars, jwtVars, queryVars, loadVars, helperVars, sessionVars >>

NoCall == [op |-> "none", resp |-> NetworkFailure, outcome |-> Thrown(<< >>)]
Call(op) == [op |-> op, resp |-> NetworkFailure, outcome |-> Thrown(<< >>)]

\* new AuthService() in a tab whose session store is empty or was left by
\* an earlier page of the application in the same tab.
AuthInit ==
    /\ token = << >>
    /\ user = JNull
    /\ \E t \in Tokens \cup { << >> } :
        /\ ssToken = t
        /\ ssUser = IF t = << >> THEN << >> ELSE JSONStringify(decodeJWT(t))
    /\ authCall = NoCall

JwtIdle == jwtIn = << >> /\ jwtOut = [done |-> FALSE, val |-> JNull]

QueryIdle ==
    /\ queryIn = GqlNetworkFailure
    /\ queryOut = [done |-> FALSE, val |-> QueryThrown(<< >>)]

NoError == << >>
MsgNotAFunction == << "this.getRankName", "is", "not", "a", "function" >>

NoRows == [levelProgress |-> << >>, levelTransactions |-> << >>]

RankIdle ==
    /\ rankIn = [rev |-> "services/graphql.js", progress |-> << >>, transactions |-> << >>]
    /\ rankPc = "idle"
    /\ rankPending = {}
    /\ rankData = NoRows
    /\ rankThrown = NoError
    /\ rankOut = RankFallback

\* The operations of the Promise.all of getUserProfile that make one query,
\* in the order of lines 698-702.
SimpleOps == { "user", "xp", "progress", "results", "audits" }
BundleOps == SimpleOps \cup { "skills" }

\* new App() before its constructor has run: the login section is the
\* active one of index.html and the overlay is hidden.
LoadIdle ==
    /\ currentSection = "login"
    /\ overlay = FALSE
    /\ loadPc = "start"
    /\ ops = [o \in BundleOps |-> "idle"]
    /\ failed = {}
    /\ panels = {}
    /\ errorBlock = FALSE
    /\ shown = {}
    /\ logoutTimer = FALSE

HelperIdle == helperIn = << >> /\ helperOut = [done |-> FALSE, val |-> << >>]

\* No login was submitted, nothing is pending and the panels of index.html
\* are empty.
SessionIdle ==
    /\ session = 0
    /\ logins = 0
    /\ loginPc = "idle"
    /\ profileTimers = {}
    /\ loads = {}
    /\ pendingLogouts = {}
    /\ rendered = [p \in { "userInfo", "xpInfo", "skills", "graphs" } |-> 0]
    /\ loginError = << >>

AuthIdle ==
    /\ token = << >> /\ user = JNull /\ ssToken = << >> /\ ssUser = << >>
    /\ authCall = NoCall

\* The mutant drops the session it holds when the exchange fails.
authenticate_clearsOnFailure(resp) ==
    LET out == authenticateOutcome(resp)
    IN  /\ authCall' = [op |-> "authenticate", resp |-> resp, outcome |-> out]
        /\ IF out.ok
           THEN /\ token' = out.token
                /\ user' = decodeJWT(out.token)
                /\ ssToken' = out.token
                /\ ssUser' = JSONStringify(decodeJWT(out.token))
           ELSE /\ token' = << >>
                /\ user' = JNull
                /\ ssToken' = << >>
                /\ ssUser' = << >>

\* authenticate(identifier, password), from the arrival of the response: a
\* failure throws before line 87, a success stores the token and the
\* decoded identity in the service and in the session store.
authenticate(resp) ==
    LET out == authenticateOutcome(resp)
    IN  /\ authCall' = [op |-> "authenticate", resp |-> resp, outcome |-> out]
        /\ IF out.ok
           THEN /\ token' = out.token
                /\ user' = decodeJWT(out.token)
                /\ ssToken' = out.token
                /\ ssUser' = JSONStringify(decodeJWT(out.token))
           ELSE UNCHANGED << token, user, ssToken, ssUser >>

\* The value isAuthenticated() returns in the current state.
isAuthenticated == token # << >> \/ ssToken # << >>

\* The fields of the service after isAuthenticated(): it restores the token
\* and the identity from the session store when the service holds no token.
RestoredToken == IF token # << >> THEN token ELSE ssToken

RestoredUser ==
    IF token # << >> \/ ssToken = << >> \/ ssUser = << >> THEN user
    ELSE IF JSONParse(ssUser).ok THEN JSONParse(ssUser).val
    ELSE decodeJWT(ssToken)

\* isAuthenticated()
isAuthenticatedCall ==
    /\ authCall' = Call("isAuthenticated")
    /\ token' = RestoredToken
    /\ user' = RestoredUser
    /\ UNCHANGED << ssToken, ssUser >>

\* getToken()
getToken == IF token # << >> THEN token ELSE ssToken

\* getAuthHeader(): the headers it returns, as <<name, value>> pairs.
getAuthHeader ==
    IF getToken # << >>
    THEN { << "Authorization", << "B","e","a","r","e","r"," " >> \o getToken >> }
    ELSE {}

\* The value getUser() returns in the current state.
getUser ==
    IF Truthy(user) THEN user
    ELSE IF ssUser # << >> /\ JSONParse(ssUser).ok THEN JSONParse(ssUser).val
    ELSE JNull

\* getUser(): caches the stored identity in the service.
getUserCall ==
    /\ authCall' = Call("getUser")
    /\ user' = IF Truthy(user) THEN user
               ELSE IF ssUser # << >> /\ JSONParse(ssUser).ok THEN JSONParse(ssUser).val
               ELSE user
    /\ UNCHANGED << token, ssToken, ssUser >>

\* The mutant forgets to remove the stored identity.
logout_keepsUserInfo ==
    /\ authCall' = Call("logout")
    /\ token' = << >>
    /\ user' = JNull
    /\ ssToken' = << >>
    /\ UNCHANGED ssUser

\* logout()
logout ==
    /\ authCall' = Call("logout")
    /\ token' = << >>
    /\ user' = JNull
    /\ ssToken' = << >>
    /\ ssUser' = << >>

(***************************************************************************)
(* The authentication service driven by arbitrary calls.                   *)
(***************************************************************************)

InitAuth == AuthInit /\ JwtIdle /\ QueryIdle /\ RankIdle /\ LoadIdle /\ HelperIdle /\ SessionIdle

Authenticate == \E resp \in AuthResponses : authenticate(resp) /\ UNCHANGED notAuthVars

IsAuthenticated == isAuthenticatedCall /\ UNCHANGED notAuthVars

\* getToken() changes nothing.
GetToken ==
    /\ authCall' = Call("getToken")
    /\ UNCHANGED << token, user, ssToken, ssUser, notAuthVars >>

GetUser == getUserCall /\ UNCHANGED notAuthVars

Logout == logout /\ UNCHANGED notAuthVars

NextAuth ==
    \/ Authenticate
    \/ IsAuthenticated
    \/ GetToken
    \/ GetUser
    \/ Logout

SpecAuth == InitAuth /\ [][NextAuth]_vars

(***************************************************************************)
(* decodeJWT as a function of its argument.                                *)
(***************************************************************************)

MaxSegments == 4

JwtSegments ==
    { Base64UrlEncode(d) : d \in { DocSub, DocSubName, DocEmpty, DocOne, DocX } }
        \cup { << "!" >>, << >> }

JwtInputs ==
    UNION { { Join(segs) : segs \in [1..n -> JwtSegments] } : n \in 1..MaxSegments }

InitJWT ==
    /\ jwtIn \in JwtInputs
    /\ jwtOut = [done |-> FALSE, val |-> JNull]
    /\ AuthIdle /\ QueryIdle /\ RankIdle /\ LoadIdle /\ HelperIdle /\ SessionIdle

DecodeJWT ==
    /\ ~jwtOut.done
    /\ jwtOut' = [done |-> TRUE, val |-> decodeJWT(jwtIn)]
    /\ UNCHANGED << jwtIn, notJwtVars >>

NextJWT == DecodeJWT

SpecJWT == InitJWT /\ [][NextJWT]_vars

(***************************************************************************)
(* Properties of the authentication service.                               *)
(***************************************************************************)

\* C3: after any sequence of authenticate, isAuthenticated, getToken,
\* getUser and logout calls the session store holds the token entry if and
\* only if it holds the identity entry, and right after logout both entries
\* and the in-memory token and identity are absent, isAuthenticated() is
\* false and getAuthHeader() carries no Authorization header.
C3_StoreEntriesTogether ==
    /\ (ssToken # << >>) <=> (ssUser # << >>)
    /\ authCall.op = "logout" =>
        /\ token = << >> /\ user = JNull
        /\ ssToken = << >> /\ ssUser = << >>
        /\ ~isAuthenticated
        /\ getAuthHeader = {}

\* A logout has run on a service that an authenticate call had filled.
C3_Witness ==
    /\ authCall.op = "logout"
    /\ ssToken = << >>
    /\ ~isAuthenticated

\* C4: a 401 response raises the invalid-credentials error, a 403 response
\* the forbidden error, any other non-2xx response a generic failure whose
\* message carries the status code, and the invalid-credentials error is
\* not the error of a network failure.
C4_StatusErrors ==
    authCall.op = "authenticate" =>
        LET resp == authCall.resp
            out == authCall.outcome
        IN  /\ (~resp.net /\ resp.status = 401) =>
                ~out.ok /\ out.error = MsgInvalidCredentials
            /\ (~resp.net /\ resp.status = 403) =>
                ~out.ok /\ out.error = MsgForbidden
            /\ (~resp.net /\ ~ResponseOk(resp) /\ resp.status \notin { 401, 403 }) =>
                /\ ~out.ok
                /\ out.error \notin { MsgInvalidCredentials, MsgForbidden }
                /\ \E i \in 1..Len(out.error) : out.error[i] = ToString(resp.status)
            /\ resp.net => ~out.ok /\ out.error # MsgInvalidCredentials
            /\ MsgForbidden # MsgInvalidCredentials

\* authenticate has thrown on a 401 response.
C4_Witness ==
    /\ authCall.op = "authenticate"
    /\ ~authCall.resp.net
    /\ authCall.resp.status = 401
    /\ ~authCall.outcome.ok

\* The body shapes the specification lists for a token t: the raw token,
\* the quoted token, and an object holding it under one of the field names,
\* at top level or under a data wrapper.
SpecifiedShapes(t) ==
    { t, Quoted(t) }
        \cup { Serialize(BodyObject(<< k >>, t)) : k \in TokenFieldNames }
        \cup { Serialize(BodyObject(<< "data", k >>, t)) : k \in TokenFieldNames }

\* C5: on a 2xx response authenticate accepts every specified body shape
\* and stores the token it carries.
C5_AcceptsAllShapes ==
    (authCall.op = "authenticate" /\ ~authCall.resp.net /\ ResponseOk(authCall.resp)) =>
        \A t \in Tokens :
            authCall.resp.body \in SpecifiedShapes(t) =>
                /\ authCall.outcome.ok
                /\ authCall.outcome.token = t
                /\ token = t
                /\ ssToken = t

\* C6: decodeJWT returns the payload object of every token with three
\* segments whose middle segment is the base64url text of a JSON object, and
\* the error marker for a wrong segment count, an undecodable segment, a
\* non-JSON payload and a missing token.
C6_DecodesBase64Url ==
    jwtOut.done =>
        LET parts == Split(jwtIn)
            objects == { d \in JSONDocs : d.value.kind = "object" }
        IN  /\ \A d \in objects :
                (Len(parts) = 3 /\ parts[2] = Base64UrlEncode(d.bytes)) =>
                    jwtOut.val = d.value
            /\ (\/ Len(parts) # 3
                \/ jwtIn = << >>
                \/ parts[2] = << "!" >>
                \/ parts[2] = Base64UrlEncode(DocX)) =>
                    jwtOut.val = ErrorMarker

(***************************************************************************)
(* query as a function of the endpoint's response.                         *)
(***************************************************************************)

MaxErrors == 2

GqlMessages == { << "field", "not", "found" >>, << "permission", "denied" >> }

GqlErrorLists == UNION { [1..n -> GqlMessages] : n \in 0..MaxErrors }

GqlBodies ==
    { GqlBody(TRUE, d, e) : d \in { "none", "rows", "empty" }, e \in GqlErrorLists }
        \cup { GqlBody(FALSE, "none", << >>) }

GqlResponses ==
    { GqlNetworkFailure }
        \cup { GqlResponse(st, b) : st \in { 200, 201 } \cup ErrorStatuses, b \in GqlBodies }

InitQuery ==
    /\ queryIn \in GqlResponses
    /\ queryOut = [done |-> FALSE, val |-> QueryThrown(<< >>)]
    /\ AuthIdle /\ JwtIdle /\ RankIdle /\ LoadIdle /\ HelperIdle /\ SessionIdle

Query ==
    /\ ~queryOut.done
    /\ queryOut' = [done |-> TRUE, val |-> query(queryIn)]
    /\ UNCHANGED << queryIn, notQueryVars >>

NextQuery == Query

SpecQuery == InitQuery /\ [][NextQuery]_vars

\* C7: query rejects on a non-2xx response, rejects with the first error's
\* message when the body carries a non-empty errors array, resolves with the
\* body otherwise, and never resolves with a body that has a non-empty
\* errors array.
C7_SingleFailureChannel ==
    queryOut.done =>
        LET resp == queryIn
            out == queryOut.val
        IN  /\ (~resp.net /\ ~ResponseOk(resp)) => ~out.ok
            /\ (~resp.net /\ ResponseOk(resp) /\ resp.body.json /\ resp.body.errors # << >>) =>
                /\ ~out.ok
                /\ out.error = << "GraphQL", "error:" >> \o resp.body.errors[1]
            /\ (~resp.net /\ ResponseOk(resp) /\ resp.body.json /\ resp.body.errors = << >>) =>
                out.ok /\ out.result = resp.body
            /\ out.ok => out.result.errors = << >>

\* query has rejected on a 2xx response whose body carries two errors.
C7_Witness ==
    /\ queryOut.done
    /\ ~queryIn.net /\ ResponseOk(queryIn)
    /\ Len(queryIn.body.errors) = 2
    /\ ~queryOut.val.ok

(***************************************************************************)
(* getUserRank, from its call to the promise it returns settling.          *)
(***************************************************************************)

MaxProgress == 2
MaxTransactions == 2

RankGrades ==
    { Grade(0, FALSE), Grade(1, FALSE), Grade(1, TRUE), Grade(3, TRUE), Grade(12, TRUE) }

ProgressRows == { [grade |-> g, marker |-> m] : g \in RankGrades, m \in BOOLEAN }

TransactionRows ==
    { [amount |-> a, kind |-> "xp"] : a \in { 50000, 60000 } }
        \cup { [amount |-> a, kind |-> "level"] : a \in { 500, 2500 } }

\* The responses the endpoint may give to query q of getUserRank.
RankResponses(q) ==
    { GqlResponse(200, GqlBody(TRUE, ServerRows(q, rankIn.progress, rankIn.transactions), << >>)),
      GqlResponse(200, GqlBody(TRUE, << >>, << << "permission", "denied" >> >>)),
      GqlResponse(500, GqlBody(FALSE, << >>, << >>)),
      GqlNetworkFailure }

InitRank ==
    /\ rankIn \in
        { [rev |-> r, progress |-> p, transactions |-> t] :
            r \in Revisions,
            p \in UNION { [1..n -> ProgressRows] : n \in 0..MaxProgress },
            t \in UNION { [1..n -> TransactionRows] : n \in 0..MaxTransactions } }
    /\ rankPc = "progress"
    /\ rankPending = {}
    /\ rankData = NoRows
    /\ rankThrown = NoError
    /\ rankOut = RankFallback
    /\ AuthIdle /\ JwtIdle /\ QueryIdle /\ LoadIdle /\ HelperIdle /\ SessionIdle

\* The mutant's catch block rethrows.
RankCatch_rethrows(error) == [pc |-> "rejected", val |-> RankFallback, thrown |-> error]

\* Lines 966-969: the catch block of getUserRank.
RankCatch(error) == [pc |-> "resolved", val |-> RankFallback, thrown |-> error]

\* A return statement of getUserRank: it calls this.getRankName, which
\* raises TypeError in a class that does not define it.
RankReturn(f) ==
    IF HasGetRankName(rankIn.rev)
    THEN [pc |-> "resolved", val |-> RankResult(f.level, f.source), thrown |-> NoError]
    ELSE RankCatch(MsgNotAFunction)

RankSettle(how) ==
    /\ rankPc' = how.pc
    /\ rankOut' = how.val
    /\ rankThrown' = how.thrown
    /\ rankPending' = {}
    /\ UNCHANGED << rankIn, rankData >>

\* Lines 737-766: the response to getUserProgress.
awaitExistingProgress ==
    /\ rankPc = "progress"
    /\ \E resp \in RankResponses("progress") :
        LET out == query(resp)
            f == FromExistingProgress(out.result.data)
        IN  IF ~out.ok THEN RankSettle(RankCatch(out.error))
            ELSE IF f.found THEN RankSettle(RankReturn(f))
            ELSE /\ rankPc' = "parallel"
                 /\ rankPending' = { "user", "levelProgress", "levelTransactions" }
                 /\ UNCHANGED << rankIn, rankData, rankThrown, rankOut >>

\* Lines 844-886: a response to one of the three queries of the Promise.all.
awaitRankQueries ==
    /\ rankPc = "parallel"
    /\ \E q \in rankPending : \E resp \in RankResponses(q) :
        LET out == query(resp)
            data == IF q = "user" THEN rankData ELSE [rankData EXCEPT ![q] = out.result.data]
            fp == FromLevelProgress(data.levelProgress)
            ft == FromLevelTransactions(data.levelTransactions)
        IN  IF ~out.ok THEN RankSettle(RankCatch(out.error))
            ELSE IF rankPending # { q }
            THEN /\ rankPending' = rankPending \ { q }
                 /\ rankData' = data
                 /\ UNCHANGED << rankIn, rankPc, rankThrown, rankOut >>
            ELSE IF fp.found THEN RankSettle(RankReturn(fp))
            ELSE IF ft.found THEN RankSettle(RankReturn(ft))
            ELSE /\ rankPc' = "allProgress"
                 /\ rankPending' = {}
                 /\ rankData' = data
                 /\ UNCHANGED << rankIn, rankThrown, rankOut >>

\* Lines 909-937: the response to the query over all progress.
awaitAllProgress ==
    /\ rankPc = "allProgress"
    /\ \E resp \in RankResponses("allProgress") :
        LET out == query(resp)
            f == FromHighestGrade(out.result.data)
        IN  IF ~out.ok THEN RankSettle(RankCatch(out.error))
            ELSE IF f.found THEN RankSettle(RankReturn(f))
            ELSE /\ rankPc' = "xp"
                 /\ UNCHANGED << rankIn, rankPending, rankData, rankThrown, rankOut >>

\* Lines 941-964: the response to getUserXP.
awaitTotalXP ==
    /\ rankPc = "xp"
    /\ \E resp \in RankResponses("xp") :
        LET out == query(resp)
        IN  IF ~out.ok THEN RankSettle(RankCatch(out.error))
            ELSE RankSettle(RankReturn(FromTotalXP(out.result.data)))

RankExistingProgress == awaitExistingProgress /\ UNCHANGED notRankVars

RankParallel == awaitRankQueries /\ UNCHANGED notRankVars

RankAllProgress == awaitAllProgress /\ UNCHANGED notRankVars

RankTotalXP == awaitTotalXP /\ UNCHANGED notRankVars

NextRank ==
    \/ RankExistingProgress
    \/ RankParallel
    \/ RankAllProgress
    \/ RankTotalXP

SpecRank == InitRank /\ [][NextRank]_vars

\* Whether every query getUserRank has made was answered without a failure.
RankQueriesSucceeded == rankThrown \in { NoError, MsgNotAFunction }

\* C8: getUserRank never rejects, and whenever a query or a computation of
\* its probing has thrown, it has resolved with level 1 and rank 'Beginner'.
C8_NeverRejects ==
    /\ rankPc # "rejected"
    /\ rankThrown # NoError =>
        /\ rankPc = "resolved"
        /\ rankOut.level = 1
        /\ rankOut.rank = "Beginner"

\* A query of the Promise.all has failed after the first strategy found
\* nothing, and getUserRank has resolved.
C8_Witness ==
    /\ rankPc = "resolved"
    /\ rankThrown \notin { NoError, MsgNotAFunction }
    /\ rankData.levelProgress # << >>

\* The level and the source of the first strategy that finds a level in the
\* rows of the user.
FirstUsableStrategy(in) ==
    LET s1 == FromExistingProgress(ServerRows("progress", in.progress, in.transactions))
        s2 == FromLevelProgress(ServerRows("levelProgress", in.progress, in.transactions))
        s3 == FromLevelTransactions(ServerRows("levelTransactions", in.progress, in.transactions))
        s4 == FromHighestGrade(ServerRows("allProgress", in.progress, in.transactions))
        s5 == FromTotalXP(ServerRows("xp", in.progress, in.transactions))
    IN  IF s1.found THEN s1
        ELSE IF s2.found THEN s2
        ELSE IF s3.found THEN s3
        ELSE IF s4.found THEN s4
        ELSE s5

\* C9: when its queries succeed, getUserRank resolves with the level, and
\* the label of that level, of the first strategy in the order 1 to 5 that
\* yields a usable result.
C9_FirstUsableStrategy ==
    (rankPc = "resolved" /\ RankQueriesSucceeded) =>
        /\ rankOut.level = FirstUsableStrategy(rankIn).level
        /\ rankOut.rank = getRankName(FirstUsableStrategy(rankIn).level)

\* Whether none of the strategies 1 to 4 finds a level in the rows.
NoLevelSignal(in) == FirstUsableStrategy(in).source = "calculated"

\* C10: without an explicit level signal, getUserRank reports the level
\* simulated from the total XP: level 2 for a total of exactly 50,000, and
\* always a level from 1 to 100.
C10_SimulatedLevel ==
    (rankPc = "resolved" /\ RankQueriesSucceeded /\ NoLevelSignal(rankIn)) =>
        LET totalXP == SumAmounts(ServerRows("xp", rankIn.progress, rankIn.transactions))
        IN  /\ rankOut.level = LevelUp(1, FirstLevelXP, totalXP)
            /\ totalXP = 50000 => rankOut.level = 2
            /\ rankOut.level \in 1..100

(***************************************************************************)
(* The profile load of a page opened in a tab: App.init, showProfile,      *)
(* loadProfile, getUserProfile and the responses to its requests.          *)
(***************************************************************************)

\* getUserId() for the identity u: u.sub || u.id || u.userId, the empty text
\* for null.  No identity of the model carries Hasura claims.
getUserId(u) ==
    IF Field(u, "sub") \notin { "", "0" } THEN Field(u, "sub")
    ELSE IF Field(u, "id") \notin { "", "0" } THEN Field(u, "id")
    ELSE IF Field(u, "userId") \notin { "", "0" } THEN Field(u, "userId")
    ELSE ""

\* The responses of the endpoint to a query of the load: rows, no rows, a
\* GraphQL errors array, an HTTP error, a network failure.
LoadResponses ==
    { GqlResponse(200, GqlBody(TRUE, "rows", << >>)),
      GqlResponse(200, GqlBody(TRUE, "empty", << >>)),
      GqlResponse(200, GqlBody(TRUE, "none", << << "permission", "denied" >> >>)),
      GqlResponse(500, GqlBody(FALSE, "none", << >>)),
      GqlNetworkFailure }

\* The rank queries of the load are answered for a user without rows, who
\* takes getUserRank through all its queries.
LoadRankInputs ==
    { [rev |-> r, progress |-> << >>, transactions |-> << >>] : r \in Revisions }

AllPanels == { "userInfo", "xpInfo", "skills", "graphs" }

InitLoad ==
    /\ AuthInit /\ JwtIdle /\ QueryIdle /\ LoadIdle /\ HelperIdle /\ SessionIdle
    /\ rankIn \in LoadRankInputs
    /\ rankPc = "idle"
    /\ rankPending = {}
    /\ rankData = NoRows
    /\ rankThrown = NoError
    /\ rankOut = RankFallback

\* The mutant's debugUserData lets the failure of its query through.
debugUserData_rethrows(resp) == IF query(resp).ok THEN "resolved" ELSE "rejected"

\* Lines 663-680: debugUserData resolves with the data, and with null when
\* its query fails.
debugUserData(resp) == IF query(resp).ok THEN "resolved" ELSE "resolved"

\* The mutant waits for every operation and resolves whatever their outcome.
PromiseAll_allSettled(states) ==
    IF states \subseteq { "resolved", "rejected" } THEN "resolved" ELSE "pending"

\* Promise.all over promises in the given states.
PromiseAll(states) ==
    IF "rejected" \in states THEN "rejected"
    ELSE IF states \subseteq { "resolved" } THEN "resolved"
    ELSE "pending"

\* The states of the seven promises of lines 697-705, from the operations
\* and the position of getUserRank.
BundleStates(o, rpc) ==
    { o[k] : k \in SimpleOps }
        \cup { IF o["skills"] = "resolved" THEN "resolved" ELSE "pending" }
        \cup { IF rpc \in { "resolved", "rejected" } THEN rpc ELSE "pending" }

\* profile.js:30-46 and app.js:204-209: the panels and the graphs are
\* rendered and the overlay is hidden.
Render ==
    /\ loadPc' = "rendered"
    /\ panels' = AllPanels
    /\ overlay' = FALSE
    /\ UNCHANGED << currentSection, errorBlock, shown, logoutTimer >>

\* app.js:196-209: the catch and finally blocks of showProfile.
ShowProfileCatch ==
    /\ loadPc' = "failed"
    /\ shown' = shown \cup { "error" }
    /\ logoutTimer' = TRUE
    /\ overlay' = FALSE
    /\ UNCHANGED << currentSection, panels >>

\* graphql.js:716-719 and profile.js:48-64 rethrow to showProfile, the
\* latter after writing its error block.
LoadProfileCatch == errorBlock' = TRUE /\ ShowProfileCatch

\* What the load does when a response has left the promises of the
\* Promise.all in the given states.
Continue(states) ==
    IF loadPc = "bundle" /\ PromiseAll(states) = "resolved" THEN Render
    ELSE IF loadPc = "bundle" /\ PromiseAll(states) = "rejected" THEN LoadProfileCatch
    ELSE UNCHANGED << currentSection, overlay, loadPc, panels, errorBlock, shown, logoutTimer >>

\* app.js:15-29, 158-195: the constructor of App on DOMContentLoaded.
AppInit ==
    /\ loadPc = "start"
    /\ token' = RestoredToken
    /\ user' = RestoredUser
    /\ UNCHANGED << ssToken, ssUser >>
    /\ IF isAuthenticated
       THEN /\ authCall' = Call("getUserId")
            /\ currentSection' = "profile"
            /\ IF getUserId(RestoredUser) = ""
               THEN /\ ShowProfileCatch
                    /\ UNCHANGED errorBlock
               ELSE /\ loadPc' = "debug"
                    /\ overlay' = TRUE
                    /\ UNCHANGED << panels, errorBlock, shown, logoutTimer >>
       ELSE /\ authCall' = Call("isAuthenticated")
            /\ loadPc' = "login"
            /\ UNCHANGED << currentSection, overlay, panels, errorBlock, shown, logoutTimer >>
    /\ UNCHANGED << ops, failed, jwtVars, queryVars, rankVars, helperVars, sessionVars >>

\* graphql.js:693-705: the response to the query of debugUserData; the
\* seven operations start when it resolves.
DebugResponse ==
    /\ loadPc = "debug"
    /\ \E resp \in LoadResponses :
        /\ failed' = IF query(resp).ok THEN failed ELSE failed \cup { "debug" }
        /\ IF debugUserData(resp) = "resolved"
           THEN /\ loadPc' = "bundle"
                /\ ops' = [o \in BundleOps |-> IF o = "skills" THEN "highest" ELSE "pending"]
                /\ rankPc' = "progress"
                /\ UNCHANGED << currentSection, overlay, panels, errorBlock, shown, logoutTimer >>
           ELSE /\ LoadProfileCatch
                /\ UNCHANGED << ops, rankPc >>
    /\ UNCHANGED << authVars, jwtVars, queryVars, helperVars, sessionVars,
                    rankIn, rankPending, rankData, rankThrown, rankOut >>

\* The response to the query of getCurrentUser, getUserXP, getUserProgress,
\* getUserResults or getUserAudits.
OpResponse ==
    \E o \in SimpleOps : \E resp \in LoadResponses :
        /\ ops[o] = "pending"
        /\ ops' = [ops EXCEPT ![o] = IF query(resp).ok THEN "resolved" ELSE "rejected"]
        /\ failed' = IF query(resp).ok THEN failed ELSE failed \cup { o }
        /\ Continue(BundleStates(ops', rankPc))
        /\ UNCHANGED << authVars, jwtVars, queryVars, rankVars, helperVars, sessionVars >>

\* graphql.js:318-438, 978-1095: the response to a skills query.  A failure
\* of the first query starts getUserSkillsOriginal; its nested query, and
\* its direct query when the nested one finds no skills, give [] on failure.
SkillsResponse ==
    \E resp \in LoadResponses :
        /\ ops["skills"] \in { "highest", "nested", "direct" }
        /\ ops' = [ops EXCEPT !["skills"] =
                IF ops["skills"] = "highest"
                THEN IF query(resp).ok THEN "resolved" ELSE "nested"
                ELSE IF ops["skills"] = "nested" /\ query(resp).ok
                                                /\ query(resp).result.data = "empty"
                THEN "direct"
                ELSE "resolved"]
        /\ failed' = IF query(resp).ok THEN failed ELSE failed \cup { "skills" }
        /\ Continue(BundleStates(ops', rankPc))
        /\ UNCHANGED << authVars, jwtVars, queryVars, rankVars, helperVars, sessionVars >>

\* A response to a query of getUserRank.
RankResponse ==
    /\ loadPc \in { "bundle", "failed" }
    /\ \/ awaitExistingProgress
       \/ awaitRankQueries
       \/ awaitAllProgress
       \/ awaitTotalXP
    /\ Continue(BundleStates(ops, rankPc'))
    /\ UNCHANGED << authVars, jwtVars, queryVars, helperVars, sessionVars, ops, failed >>

\* app.js:113-129: handleLogout, run by the timer of showProfile.
LogoutTimer ==
    /\ logoutTimer
    /\ logoutTimer' = FALSE
    /\ logout
    /\ currentSection' = "login"
    /\ shown' = shown \cup { "success" }
    /\ UNCHANGED << overlay, loadPc, ops, failed, panels, errorBlock,
                    jwtVars, queryVars, rankVars, helperVars, sessionVars >>

NextLoad ==
    \/ AppInit
    \/ DebugResponse
    \/ OpResponse
    \/ SkillsResponse
    \/ RankResponse
    \/ LogoutTimer

SpecLoad == InitLoad /\ [][NextLoad]_vars

\* The requests whose failure rejects the Promise.all of getUserProfile.
RequiredRequests == { "user", "xp", "progress", "results", "audits" }

\* Whether the load has been aborted: nothing rendered, the error shown and
\* the logout pending or done with the login view shown.
Aborted ==
    /\ loadPc = "failed"
    /\ panels = {}
    /\ errorBlock
    /\ "error" \in shown
    /\ \/ logoutTimer
       \/ currentSection = "login" /\ ~isAuthenticated

C2_RenderAfterAllSettled ==
    /\ panels # {} => BundleStates(ops, rankPc) = { "resolved" }
    /\ "rejected" \in BundleStates(ops, rankPc) => loadPc = "failed" /\ panels = {}

\* The seven operations have resolved, getUserRank through its catch block,
\* and the panels are rendered.
C2_Witness ==
    /\ panels = AllPanels
    /\ BundleStates(ops, rankPc) = { "resolved" }
    /\ rankThrown # NoError

(***************************************************************************)
(* getUserRank for a user with one progress row, of any grade.             *)
(***************************************************************************)

MaxGrade == 64

InitRankLevels ==
    /\ rankIn \in
        { [rev |-> r,
           progress |-> << [grade |-> Grade(fl, fr), marker |-> m] >>,
           transactions |-> << >>] :
            r \in Revisions, fl \in 0..MaxGrade, fr \in BOOLEAN, m \in BOOLEAN }
    /\ rankPc = "progress"
    /\ rankPending = {}
    /\ rankData = NoRows
    /\ rankThrown = NoError
    /\ rankOut = RankFallback
    /\ AuthIdle /\ JwtIdle /\ QueryIdle /\ LoadIdle /\ HelperIdle /\ SessionIdle

SpecRankLevels == InitRankLevels /\ [][NextRank]_vars

\* C11: the label getUserRank reports with a level is the title of the
\* threshold table for that level, the highest threshold first.
C11_LabelOfLevel ==
    rankPc = "resolved" =>
        LET level == rankOut.level
        IN  rankOut.rank =
                CASE level >= 60 -> "Senior Architect"
                  [] level >= 50 /\ level < 60 -> "Lead Developer"
                  [] level >= 40 /\ level < 50 -> "Senior Developer"
                  [] level >= 30 /\ level < 40 -> "Assistant Developer"
                  [] level >= 25 /\ level < 30 -> "Junior Developer"
                  [] level >= 20 /\ level < 25 -> "Developer"
                  [] level >= 15 /\ level < 20 -> "Advanced Programmer"
                  [] level >= 10 /\ level < 15 -> "Programmer"
                  [] level >= 5 /\ level < 10 -> "Junior Programmer"
                  [] level >= 2 /\ level < 5 -> "Apprentice"
                  [] level < 2 -> "Beginner"

\* getUserRank has reported level 60 from a return statement.
C11_Witness ==
    /\ rankPc = "resolved"
    /\ rankThrown = NoError
    /\ rankOut.level = 60

(***************************************************************************)
(* utils/helpers.js: the data helpers, each called on an argument.         *)
(***************************************************************************)

UpperCaseLetters == << "A", "B", "C", "D", "E", "F", "G", "H", "I", "J", "K", "L", "M", "N", "O", "P", "Q", "R", "S", "T", "U", "V", "W", "X", "Y", "Z" >>
LowerCaseLetters == << "a", "b", "c", "d", "e", "f", "g", "h", "i", "j", "k", "l", "m", "n", "o", "p", "q", "r", "s", "t", "u", "v", "w", "x", "y", "z" >>

\* str.toLowerCase()
toLowerCase(str) ==
    [i \in 1..Len(str) |->
        IF \E k \in 1..26 : UpperCaseLetters[k] = str[i]
        THEN LowerCaseLetters[CHOOSE k \in 1..26 : UpperCaseLetters[k] = str[i]]
        ELSE str[i]]

\* str.includes(part)
includes(str, part) ==
    \E i \in 0..(Len(str) - Len(part)) : SubSeq(str, i + 1, i + Len(part)) = part

\* The helper called settles with the value val.
Returned(val) == [done |-> TRUE, val |-> val]

NotCalled == helperOut = [done |-> FALSE, val |-> << >>]

notHelperVars == << authVars, jwtVars, queryVars, rankVars, loadVars, sessionVars >>

HelperOthersIdle == AuthIdle /\ JwtIdle /\ QueryIdle /\ RankIdle /\ LoadIdle /\ SessionIdle

\* The mutant also drops the last record it would keep.
filterXPData_dropsLastKept(xpData) ==
    LET kept == SelectSeq(xpData, LAMBDA r : r.type \notin { "exercise", "raid" })
    IN  SubSeq(kept, 1, Len(kept) - 1)

\* The mutant forgets the test for raids.
filterXPData_keepsRaids(xpData) ==
    SelectSeq(xpData, LAMBDA transaction :
        LET objectType == transaction.type
            objectName == transaction.name
            path == transaction.path
            isPiscineGo ==
                /\ objectType = "piscine"
                /\ \/ includes(toLowerCase(objectName), << "g", "o" >>)
                   \/ includes(path, << "p", "i", "s", "c", "i", "n", "e", "-", "g", "o" >>)
                   \/ toLowerCase(objectName) = << "p", "i", "s", "c", "i", "n", "e", " ", "g", "o" >>
            isPiscineRust ==
                /\ objectType = "piscine"
                /\ \/ includes(toLowerCase(objectName), << "r", "u", "s", "t" >>)
                   \/ includes(path, << "p", "i", "s", "c", "i", "n", "e", "-", "r", "u", "s", "t" >>)
                   \/ toLowerCase(objectName) = << "p", "i", "s", "c", "i", "n", "e", " ", "r", "u", "s", "t" >>
        IN  IF objectType = "exercise" THEN FALSE
            ELSE ~(isPiscineGo \/ isPiscineRust))

\* filterXPData(xpData).  A transaction is [type, name, path]: the type and
\* the name of its object and its path, empty where the source reads ''.
filterXPData(xpData) ==
    SelectSeq(xpData, LAMBDA transaction :
        LET objectType == transaction.type
            objectName == transaction.name
            path == transaction.path
            isPiscineGo ==
                /\ objectType = "piscine"
                /\ \/ includes(toLowerCase(objectName), << "g", "o" >>)
                   \/ includes(path, << "p", "i", "s", "c", "i", "n", "e", "-", "g", "o" >>)
                   \/ toLowerCase(objectName) = << "p", "i", "s", "c", "i", "n", "e", " ", "g", "o" >>
            isPiscineRust ==
                /\ objectType = "piscine"
                /\ \/ includes(toLowerCase(objectName), << "r", "u", "s", "t" >>)
                   \/ includes(path, << "p", "i", "s", "c", "i", "n", "e", "-", "r", "u", "s", "t" >>)
                   \/ toLowerCase(objectName) = << "p", "i", "s", "c", "i", "n", "e", " ", "r", "u", "s", "t" >>
        IN  IF objectType = "exercise" THEN FALSE
            ELSE IF objectType = "raid" THEN FALSE
            ELSE ~(isPiscineGo \/ isPiscineRust))

MaxXPRecords == 2

XPObjectTypes == { "exercise", "raid", "piscine", "project", "" }
XPObjectNames == { << "G", "o" >>, << "R", "U", "S", "T" >>, << "j", "s" >> }
XPPaths == { << "/", "p", "i", "s", "c", "i", "n", "e", "-", "g", "o", "/", "x" >>, << "/", "p", "i", "s", "c", "i", "n", "e", "-", "r", "u", "s", "t" >>, << "/", "P", "i", "s", "c", "i", "n", "e", "-", "G", "o" >>, << >> }

XPRecords ==
    { [type |-> t, name |-> n, path |-> p] :
        t \in XPObjectTypes, n \in XPObjectNames, p \in XPPaths }

InitFilterXP ==
    /\ helperIn \in UNION { [1..n -> XPRecords] : n \in 0..MaxXPRecords }
    /\ NotCalled
    /\ HelperOthersIdle

FilterXPData ==
    /\ NotCalled
    /\ helperOut' = Returned(filterXPData(helperIn))
    /\ UNCHANGED << helperIn, notHelperVars >>

NextFilterXP == FilterXPData

SpecFilterXP == InitFilterXP /\ [][NextFilterXP]_vars

\* Whether C12 has the record dropped.
DroppedByCategory(r) ==
    \/ r.type \in { "exercise", "raid" }
    \/ /\ r.type = "piscine"
       /\ \/ includes(toLowerCase(r.name), << "g", "o" >>) \/ includes(r.path, << "p", "i", "s", "c", "i", "n", "e", "-", "g", "o" >>)
          \/ includes(toLowerCase(r.name), << "r", "u", "s", "t" >>) \/ includes(r.path, << "p", "i", "s", "c", "i", "n", "e", "-", "r", "u", "s", "t" >>)

CumulativePoint(transaction, cumulativeXP) ==
    [createdAt |-> transaction.createdAt, amount |-> transaction.amount,
     cumulativeXP |-> cumulativeXP]

\* The mutant leaves out the transactions of amount 0.
calculateCumulativeXP_skipsZero(xpData) ==
    LET kept == SelectSeq(xpData, LAMBDA t : t.amount # 0)
        sortedData == SortDesc(kept, [i \in 1..Len(kept) |-> 0 - kept[i].createdAt])
    IN  [i \in 1..Len(sortedData) |->
            CumulativePoint(sortedData[i], SumAmounts(SubSeq(sortedData, 1, i)))]

\* The mutant sorts the newest transaction first.
calculateCumulativeXP_newestFirst(xpData) ==
    LET sortedData == SortDesc(xpData, [i \in 1..Len(xpData) |-> xpData[i].createdAt])
    IN  [i \in 1..Len(sortedData) |->
            CumulativePoint(sortedData[i], SumAmounts(SubSeq(sortedData, 1, i)))]

\* calculateCumulativeXP(xpData): createdAt is the time value of the date,
\* the sort is (a, b) => a.createdAt - b.createdAt.
calculateCumulativeXP(xpData) ==
    LET sortedData == SortDesc(xpData, [i \in 1..Len(xpData) |-> 0 - xpData[i].createdAt])
    IN  [i \in 1..Len(sortedData) |->
            CumulativePoint(sortedData[i], SumAmounts(SubSeq(sortedData, 1, i)))]

MaxXPPoints == 3
MaxCreatedAt == 2

\* XP is a signed integer unit.
XPAmounts == { 0 - 5, 0, 10 }

TimedXPRecords ==
    { [type |-> t, name |-> << "j", "s" >>, path |-> << >>, createdAt |-> c, amount |-> a] :
        t \in { "project", "exercise" }, c \in 1..MaxCreatedAt, a \in XPAmounts }

InitCumulativeXP ==
    /\ helperIn \in UNION { [1..n -> TimedXPRecords] : n \in 0..MaxXPPoints }
    /\ NotCalled
    /\ HelperOthersIdle

\* graphs.js:44-45: the XP data filtered, and its cumulative series.
CumulativeXP ==
    /\ NotCalled
    /\ LET filteredXP == filterXPData(helperIn)
       IN  helperOut' = Returned([filteredXP |-> filteredXP,
                                  cumulativeData |-> calculateCumulativeXP(filteredXP)])
    /\ UNCHANGED << helperIn, notHelperVars >>

NextCumulativeXP == CumulativeXP

SpecCumulativeXP == InitCumulativeXP /\ [][NextCumulativeXP]_vars

NonDecreasing(series) ==
    \A i \in 1..(Len(series) - 1) : series[i].cumulativeXP <= series[i + 1].cumulativeXP

\* C13 as stated: for all transaction sets the series has as many points as
\* the filtered input has records, and its running totals never decrease.
C13_SeriesLengthAndMonotone ==
    helperOut.done =>
        /\ Len(helperOut.val.cumulativeData) = Len(helperOut.val.filteredXP)
        /\ NonDecreasing(helperOut.val.cumulativeData)

\* C13: the series has as many points as the filtered input has records, and
\* its running totals never decrease when no filtered amount is negative.
C13_SeriesLengthAndMonotoneNonNegative ==
    helperOut.done =>
        /\ Len(helperOut.val.cumulativeData) = Len(helperOut.val.filteredXP)
        /\ (\A i \in 1..Len(helperOut.val.filteredXP) : helperOut.val.filteredXP[i].amount >= 0)
            => NonDecreasing(helperOut.val.cumulativeData)

\* Two of three records pass the filter, with amounts 0 and 10.
C13_Witness ==
    /\ helperOut.done
    /\ Len(helperIn) = 3
    /\ Len(helperOut.val.cumulativeData) = 2
    /\ helperOut.val.cumulativeData[1].cumulativeXP = 0
    /\ helperOut.val.cumulativeData[2].cumulativeXP = 10

\* C14: the record at place k of the filtered input stands in the series
\* after the records of earlier timestamps and the earlier records of the same
\* timestamp, and each running total is the sum of the amounts up to its
\* point.
C14_StableAscendingPrefixSums ==
    helperOut.done =>
        LET input == helperOut.val.filteredXP
            series == helperOut.val.cumulativeData
            place(k) == 1 + Cardinality({ j \in 1..Len(input) :
                            \/ input[j].createdAt < input[k].createdAt
                            \/ (input[j].createdAt = input[k].createdAt /\ j < k) })
        IN  /\ Len(series) = Len(input)
            /\ \A k \in 1..Len(input) :
                /\ series[place(k)].createdAt = input[k].createdAt
                /\ series[place(k)].amount = input[k].amount
            /\ \A i \in 1..Len(series) :
                series[i].cumulativeXP = SumAmounts(SubSeq(series, 1, i))
            /\ Len(series) > 0 => series[Len(series)].cumulativeXP = SumAmounts(input)

\* A later record of an earlier timestamp moves before two records of equal
\* timestamps, which keep their order.
C14_Witness ==
    /\ helperOut.done
    /\ Len(helperOut.val.filteredXP) = 3
    /\ helperOut.val.filteredXP[1].createdAt = 2 /\ helperOut.val.filteredXP[1].amount = 10
    /\ helperOut.val.filteredXP[2].createdAt = 2 /\ helperOut.val.filteredXP[2].amount = 0
    /\ helperOut.val.filteredXP[3].createdAt = 1 /\ helperOut.val.filteredXP[3].amount = 10
    /\ helperOut.val.cumulativeData[2].cumulativeXP = 20
    /\ helperOut.val.cumulativeData[3].cumulativeXP = 20

(***************************************************************************)
(* GraphQLService.getUserAudits                                            *)
(***************************************************************************)

\* Math.abs(x)
Abs(x) == IF x < 0 THEN 0 - x ELSE x

\* downTransactions.reduce((sum, t) => sum + Math.abs(t.amount), 0)
RECURSIVE SumAbsAmounts(_)
SumAbsAmounts(list) ==
    IF list = << >> THEN 0 ELSE Abs(Head(list).amount) + SumAbsAmounts(Tail(list))

\* The number num / den, den not 0.
Ratio(num, den) == [num |-> num, den |-> den]

AuditsRejected ==
    [state |-> "rejected", auditsGiven |-> 0, auditsReceived |-> 0, auditRatio |-> Ratio(0, 1)]

\* The earlier revision of unnamed/part_002:242-254 takes the absolute value
\* of the sum of the received amounts.
getUserAudits_absOfSum(resp) ==
    LET result == query(resp)
        upTransactions == result.result.data.transaction
        downSum == SumAmounts(result.result.data.down_transactions)
        upSum == SumAmounts(upTransactions)
    IN  IF ~result.ok THEN AuditsRejected
        ELSE [state |-> "resolved",
              auditsGiven |-> upSum,
              auditsReceived |-> Abs(downSum),
              auditRatio |-> IF downSum # 0 THEN Ratio(upSum, Abs(downSum))
                             ELSE IF upSum > 0 THEN Ratio(upSum, 1)
                             ELSE Ratio(0, 1)]

\* getUserAudits(userId) on the response to its query: lines 288-310.
getUserAudits(resp) ==
    LET result == query(resp)
        upTransactions == result.result.data.transaction
        downTransactions == result.result.data.down_transactions
        auditsGivenXP == SumAmounts(upTransactions)
        auditsReceivedXP == SumAbsAmounts(downTransactions)
    IN  IF ~result.ok THEN AuditsRejected
        ELSE [state |-> "resolved",
              auditsGiven |-> auditsGivenXP,
              auditsReceived |-> auditsReceivedXP,
              auditRatio |-> IF auditsReceivedXP # 0 THEN Ratio(auditsGivenXP, auditsReceivedXP)
                             ELSE IF auditsGivenXP > 0 THEN Ratio(auditsGivenXP, 1)
                             ELSE Ratio(0, 1)]

MaxAudits == 2

\* The amounts of the 'up' and of the 'down' transactions.
UpAmounts == { 0, 100, 250 }
DownAmounts == { 0 - 100, 0, 50 }

AuditRows(amounts) ==
    UNION { [1..n -> { [amount |-> a] : a \in amounts }] : n \in 0..MaxAudits }

InitAudits ==
    /\ helperIn \in
        { [transaction |-> up, down_transactions |-> down] :
            up \in AuditRows(UpAmounts), down \in AuditRows(DownAmounts) }
    /\ NotCalled
    /\ HelperOthersIdle

\* The responses of the endpoint to the query of getUserAudits.
AuditResponses ==
    { GqlResponse(200, GqlBody(TRUE, helperIn, << >>)),
      GqlResponse(200, GqlBody(TRUE, helperIn, << << "permission", "denied" >> >>)),
      GqlResponse(500, GqlBody(FALSE, helperIn, << >>)) }

GetUserAudits ==
    /\ NotCalled
    /\ \E resp \in AuditResponses : helperOut' = Returned(getUserAudits(resp))
    /\ UNCHANGED << helperIn, notHelperVars >>

NextAudits == GetUserAudits

SpecAudits == InitAudits /\ [][NextAudits]_vars

\* C15: the summary has given = the sum of the given amounts, received = the
\* sum of the absolute values of the received amounts, and ratio = given /
\* received, or, when received is 0, given if it is positive and 0 if not.
C15_AuditSummary ==
    (helperOut.done /\ helperOut.val.state = "resolved") =>
        LET given == SumAmounts(helperIn.transaction)
            down == helperIn.down_transactions
            received == SumAbsAmounts(down)
            ratio == helperOut.val.auditRatio
        IN  /\ helperOut.val.auditsGiven = given
            /\ helperOut.val.auditsReceived = received
            /\ received >= 0
            /\ ratio.den # 0
            /\ received # 0 => ratio.num * received = given * ratio.den
            /\ received = 0 /\ given > 0 => ratio.num = given * ratio.den
            /\ received = 0 /\ given <= 0 => ratio.num = 0
            /\ helperIn.transaction = << >> /\ down = << >> =>
                /\ helperOut.val.auditsGiven = 0
                /\ helperOut.val.auditsReceived = 0
                /\ ratio.num = 0

\* Given [100] and nothing received: the ratio is 100.
C15_Witness ==
    /\ helperOut.done /\ helperOut.val.state = "resolved"
    /\ helperIn.transaction = << [amount |-> 100] >>
    /\ helperIn.down_transactions = << >>
    /\ helperOut.val.auditRatio = Ratio(100, 1)

(***************************************************************************)
(* utils/helpers.js: calculateSuccessRate                                  *)
(***************************************************************************)

SuccessRateOf(projects) ==
    LET passedCount == Len(SelectSeq(projects, LAMBDA p : p.grade.fl >= 1))
        failedCount == Len(SelectSeq(projects, LAMBDA p : p.grade = Grade(0, FALSE)))
        totalCount == Len(projects)
    IN  [total |-> totalCount, passed |-> passedCount, failed |-> failedCount,
         successRate |-> IF totalCount > 0 THEN Ratio(passedCount * 100, totalCount) ELSE Ratio(0, 1)]

\* The mutant counts the projects of the piscines too.
calculateSuccessRate_countsPiscines(progressData) ==
    SuccessRateOf(SelectSeq(progressData, LAMBDA p : p.type = "project"))

\* calculateSuccessRate(progressData).  A record is [type, path, grade]: the
\* type of its object, its path (empty when it has none) and its grade.
calculateSuccessRate(progressData) ==
    SuccessRateOf(SelectSeq(progressData,
        LAMBDA p : p.type = "project" /\ ~includes(p.path, << "p", "i", "s", "c", "i", "n", "e" >>)))

MaxProgressRecords == 3

ProgressPaths == { << "/", "p", "i", "s", "c", "i", "n", "e", "-", "j", "s", "/", "x" >>, << "/", "d", "i", "v", "-", "0", "1", "/", "x" >>, << >> }

ProgressRecords ==
    { [type |-> t, path |-> p, grade |-> g] :
        t \in { "project", "exercise" },
        p \in ProgressPaths,
        g \in { Grade(0, FALSE), Grade(0, TRUE), Grade(1, FALSE) } }

InitSuccessRate ==
    /\ helperIn \in UNION { [1..n -> ProgressRecords] : n \in 0..MaxProgressRecords }
    /\ NotCalled
    /\ HelperOthersIdle

CalculateSuccessRate ==
    /\ NotCalled
    /\ helperOut' = Returned(calculateSuccessRate(helperIn))
    /\ UNCHANGED << helperIn, notHelperVars >>

NextSuccessRate == CalculateSuccessRate

SpecSuccessRate == InitSuccessRate /\ [][NextSuccessRate]_vars

\* C16: total counts the records of type 'project' whose path does not
\* contain 'piscine', passed those of them of grade >= 1, failed those of
\* grade 0, and the rate is passed / total x 100, or 0 when total is 0.
C16_SuccessRate ==
    helperOut.done =>
        LET counted == { i \in 1..Len(helperIn) :
                            /\ helperIn[i].type = "project"
                            /\ ~includes(helperIn[i].path, << "p", "i", "s", "c", "i", "n", "e" >>) }
            totalCount == Cardinality(counted)
            passedCount == Cardinality({ i \in counted : helperIn[i].grade.fl >= 1 })
            failedCount == Cardinality({ i \in counted : helperIn[i].grade = Grade(0, FALSE) })
            rate == helperOut.val.successRate
        IN  /\ helperOut.val.total = totalCount
            /\ helperOut.val.passed = passedCount
            /\ helperOut.val.failed = failedCount
            /\ rate.den # 0
            /\ totalCount > 0 => rate.num * totalCount = passedCount * 100 * rate.den
            /\ totalCount = 0 => rate.num = 0

\* The three-record example: a passed project, a failed project and a
\* passed project under a piscine path give total 2, passed 1, failed 1,
\* rate 50.
C16_Witness ==
    /\ helperOut.done
    /\ helperIn = << [type |-> "project", path |-> << "/", "d", "i", "v", "-", "0", "1", "/", "x" >>, grade |-> Grade(1, FALSE)],
                     [type |-> "project", path |-> << "/", "d", "i", "v", "-", "0", "1", "/", "x" >>, grade |-> Grade(0, FALSE)],
                     [type |-> "project", path |-> << "/", "p", "i", "s", "c", "i", "n", "e", "-", "j", "s", "/", "x" >>, grade |-> Grade(1, FALSE)] >>
    /\ helperOut.val.total = 2
    /\ helperOut.val.passed = 1
    /\ helperOut.val.failed = 1
    /\ helperOut.val.successRate.num = 50 * helperOut.val.successRate.den

(***************************************************************************)
(* GraphQLService.formatSkillName                                          *)
(***************************************************************************)

\* The own properties of the skillMappings object, as <<key, value>> pairs.
skillMappings ==
    { << << "g", "o" >>,
         << "G", "o", " ", "P", "r", "o", "g", "r", "a", "m", "m", "i", "n", "g" >> >>,
      << << "j", "s" >>,
         << "J", "a", "v", "a", "S", "c", "r", "i", "p", "t" >> >>,
      << << "h", "t", "m", "l" >>,
         << "H", "T", "M", "L" >> >>,
      << << "c", "s", "s" >>,
         << "C", "S", "S" >> >>,
      << << "s", "q", "l" >>,
         << "S", "Q", "L" >> >>,
      << << "d", "b" >>,
         << "D", "a", "t", "a", "b", "a", "s", "e", " ", "M", "a", "n", "a", "g", "e", "m", "e", "n", "t" >> >>,
      << << "w", "e", "b", "-", "d", "e", "v" >>,
         << "W", "e", "b", " ", "D", "e", "v", "e", "l", "o", "p", "m", "e", "n", "t" >> >>,
      << << "b", "a", "c", "k", "e", "n", "d" >>,
         << "B", "a", "c", "k", "e", "n", "d", " ", "D", "e", "v", "e", "l", "o", "p", "m", "e", "n", "t" >> >>,
      << << "f", "r", "o", "n", "t", "e", "n", "d" >>,
         << "F", "r", "o", "n", "t", "e", "n", "d", " ", "D", "e", "v", "e", "l", "o", "p", "m", "e", "n", "t" >> >>,
      << << "a", "p", "i" >>,
         << "A", "P", "I", " ", "D", "e", "v", "e", "l", "o", "p", "m", "e", "n", "t" >> >>,
      << << "d", "o", "c", "k", "e", "r" >>,
         << "D", "o", "c", "k", "e", "r" >> >>,
      << << "g", "i", "t" >>,
         << "G", "i", "t" >> >>,
      << << "l", "i", "n", "u", "x" >>,
         << "L", "i", "n", "u", "x" >> >>,
      << << "a", "l", "g", "o" >>,
         << "A", "l", "g", "o", "r", "i", "t", "h", "m", " ", "D", "e", "s", "i", "g", "n" >> >>,
      << << "d", "a", "t", "a", "-", "s", "t", "r", "u", "c", "t" >>,
         << "D", "a", "t", "a", " ", "S", "t", "r", "u", "c", "t", "u", "r", "e", "s" >> >>,
      << << "n", "e", "t", "w", "o", "r", "k" >>,
         << "N", "e", "t", "w", "o", "r", "k", " ", "P", "r", "o", "g", "r", "a", "m", "m", "i", "n", "g" >> >>,
      << << "s", "e", "c", "u", "r", "i", "t", "y" >>,
         << "S", "e", "c", "u", "r", "i", "t", "y" >> >>,
      << << "t", "e", "s", "t", "i", "n", "g" >>,
         << "T", "e", "s", "t", "i", "n", "g" >> >>,
      << << "d", "e", "b", "u", "g" >>,
         << "D", "e", "b", "u", "g", "g", "i", "n", "g" >> >> }

\* The properties skillMappings inherits from Object.prototype: their values
\* are functions (an object for __proto__), all truthy.
InheritedProperties ==
    { << "c", "o", "n", "s", "t", "r", "u", "c", "t", "o", "r" >>,
      << "t", "o", "S", "t", "r", "i", "n", "g" >>,
      << "v", "a", "l", "u", "e", "O", "f" >>,
      << "h", "a", "s", "O", "w", "n", "P", "r", "o", "p", "e", "r", "t", "y" >>,
      << "i", "s", "P", "r", "o", "t", "o", "t", "y", "p", "e", "O", "f" >>,
      << "p", "r", "o", "p", "e", "r", "t", "y", "I", "s", "E", "n", "u", "m", "e", "r", "a", "b", "l", "e" >>,
      << "t", "o", "L", "o", "c", "a", "l", "e", "S", "t", "r", "i", "n", "g" >>,
      << "_", "_", "p", "r", "o", "t", "o", "_", "_" >> }

\* A value that is no string: the function or object an inherited property
\* holds.
NotAString == << "[object]" >>

\* str.toUpperCase() of one character
toUpperCase(c) ==
    IF \E k \in 1..26 : LowerCaseLetters[k] = c
    THEN UpperCaseLetters[CHOOSE k \in 1..26 : LowerCaseLetters[k] = c]
    ELSE c

\* skillPart.replace(/[-_]/g, ' ')
ReplaceSeparators(str) ==
    [i \in 1..Len(str) |-> IF str[i] \in { "-", "_" } THEN " " ELSE str[i]]

\* str.split(' ').map(word => word.charAt(0).toUpperCase() + word.slice(1))
\* .join(' '): the first character of the text and each character after a
\* space is put in upper case.
CapitalizeWords(str) ==
    [i \in 1..Len(str) |->
        IF i = 1 \/ str[i - 1] = " " THEN toUpperCase(str[i]) ELSE str[i]]

\* formatSkillName(skillType), the empty text for a missing type.
\* skillMappings[skillPart] reads the inherited properties too.
formatSkillName(skillType) ==
    LET skillPart == SubSeq(skillType, Len(<< "s", "k", "i", "l", "l", "_" >>) + 1, Len(skillType))
    IN  IF skillType = << >> THEN << "U", "n", "k", "n", "o", "w", "n", " ", "S", "k", "i", "l", "l" >>
        ELSE IF ~StartsWith(skillType, << "s", "k", "i", "l", "l", "_" >>) THEN skillType
        ELSE IF \E m \in skillMappings : m[1] = skillPart
        THEN (CHOOSE m \in skillMappings : m[1] = skillPart)[2]
        ELSE IF skillPart \in InheritedProperties THEN NotAString
        ELSE CapitalizeWords(ReplaceSeparators(skillPart))

\* The skill types of the model: a remainder with or without the prefix.
SkillRemainders ==
    { m[1] : m \in skillMappings } \cup
    { << "x", "y", "z", "-", "t", "h", "i", "n", "g" >>,
      << "x", "y", "z", "_", "t", "h", "i", "n", "g" >>,
      << "a", "-", "-", "b" >>,
      << "x" >>,
      << >>,
      << "p", "r", "o", "g" >>,
      << "f", "r", "o", "n", "t", "-", "e", "n", "d" >>,
      << "G", "o" >>,
      << "9", "l", "i", "v", "e", "s" >>,
      << "c", "o", "n", "s", "t", "r", "u", "c", "t", "o", "r" >>,
      << "t", "o", "S", "t", "r", "i", "n", "g" >> }

SkillTypes ==
    { prefix \o r : prefix \in { << "s", "k", "i", "l", "l", "_" >>, << >>, << "S", "k", "i", "l", "l", "_" >> }, r \in SkillRemainders }

InitSkillName ==
    /\ helperIn \in SkillTypes
    /\ NotCalled
    /\ HelperOthersIdle

FormatSkillName ==
    /\ NotCalled
    /\ helperOut' = Returned(formatSkillName(helperIn))
    /\ UNCHANGED << helperIn, notHelperVars >>

NextSkillName == FormatSkillName

SpecSkillName == InitSkillName /\ [][NextSkillName]_vars

\* C20: for a type with the 'skill_' prefix, formatSkillName gives the
\* entry of the abbreviation table for the remainder when there is one, and
\* otherwise the remainder with hyphens and underscores turned into spaces
\* and the first letter of each word in upper case.
C20_FormatSkillName ==
    (helperOut.done /\ StartsWith(helperIn, << "s", "k", "i", "l", "l", "_" >>)) =>
        LET rest == SubSeq(helperIn, 7, Len(helperIn))
            spaced == [i \in 1..Len(rest) |->
                        IF rest[i] = "-" \/ rest[i] = "_" THEN " " ELSE rest[i]]
            titled == [i \in 1..Len(rest) |->
                        IF i = 1 \/ spaced[i - 1] = " " THEN toUpperCase(spaced[i])
                        ELSE spaced[i]]
        IN  /\ rest = << "w", "e", "b", "-", "d", "e", "v" >> => helperOut.val = << "W", "e", "b", " ", "D", "e", "v", "e", "l", "o", "p", "m", "e", "n", "t" >>
            /\ rest = << "x", "y", "z", "-", "t", "h", "i", "n", "g" >> => helperOut.val = << "X", "y", "z", " ", "T", "h", "i", "n", "g" >>
            /\ (\E m \in skillMappings : m[1] = rest) =>
                    \E m \in skillMappings : m[1] = rest /\ helperOut.val = m[2]
            /\ ~(\E m \in skillMappings : m[1] = rest) => helperOut.val = titled

(***************************************************************************)
(* The skill aggregates: processHighestSkills (sum of the amounts) and     *)
(* getSkillsWithHighestAmounts (highest amount).                           *)
(***************************************************************************)

\* The greatest of a non-empty list of numbers: Math.max(...list).
MathMax(list) == CHOOSE x \in { list[i] : i \in 1..Len(list) } :
                    \A i \in 1..Len(list) : list[i] <= x

\* Math.min(a, b)
MathMin(a, b) == IF a < b THEN a ELSE b

\* The place of the entry of a name in a Map kept as the list of its
\* entries in insertion order, 0 when it has none.
MapIndex(skillsMap, name) ==
    IF \E i \in 1..Len(skillsMap) : skillsMap[i].name = name
    THEN CHOOSE i \in 1..Len(skillsMap) : skillsMap[i].name = name
    ELSE 0

\* Lines 451-474: the Map after the transactions, the amounts summed.
RECURSIVE SumByName(_, _)
SumByName(transactions, skillsMap) ==
    IF transactions = << >> THEN skillsMap
    ELSE LET transaction == Head(transactions)
             skillName == formatSkillName(transaction.type)
             at == MapIndex(skillsMap, skillName)
         IN  SumByName(Tail(transactions),
                IF at # 0
                THEN [skillsMap EXCEPT
                        ![at].totalAmount = @ + transaction.amount,
                        ![at].transactionCount = @ + 1]
                ELSE Append(skillsMap,
                        [name |-> skillName, type |-> transaction.type,
                         totalAmount |-> transaction.amount, transactionCount |-> 1]))

\* The mutant's Map is keyed by the raw type of the transaction.
RECURSIVE SumByType(_, _)
SumByType(transactions, skillsMap) ==
    IF transactions = << >> THEN skillsMap
    ELSE LET transaction == Head(transactions)
             at == IF \E i \in 1..Len(skillsMap) : skillsMap[i].type = transaction.type
                   THEN CHOOSE i \in 1..Len(skillsMap) : skillsMap[i].type = transaction.type
                   ELSE 0
         IN  SumByType(Tail(transactions),
                IF at # 0
                THEN [skillsMap EXCEPT
                        ![at].totalAmount = @ + transaction.amount,
                        ![at].transactionCount = @ + 1]
                ELSE Append(skillsMap,
                        [name |-> formatSkillName(transaction.type), type |-> transaction.type,
                         totalAmount |-> transaction.amount, transactionCount |-> 1]))

\* Lines 476-508: the grades relative to the greatest total, and the sort.
GradedByTotal(skills) ==
    LET maxAmount == MathMax([i \in 1..Len(skills) |-> skills[i].totalAmount])
        processedSkills ==
            [i \in 1..Len(skills) |->
                [name |-> skills[i].name,
                 grade |-> IF maxAmount > 0 THEN Ratio(skills[i].totalAmount, maxAmount)
                           ELSE Ratio(0, 1),
                 totalAmount |-> skills[i].totalAmount,
                 transactionCount |-> skills[i].transactionCount]]
    IN  SortDesc(processedSkills,
                 [i \in 1..Len(processedSkills) |-> processedSkills[i].totalAmount])

processHighestSkills_byType(skillTransactions) ==
    GradedByTotal(SumByType(skillTransactions, << >>))

\* processHighestSkills(skillTransactions).  A transaction is [type, amount],
\* the amount 0 for the missing one too (transaction.amount || 0).
processHighestSkills(skillTransactions) ==
    GradedByTotal(SumByName(skillTransactions, << >>))

\* Lines 1015-1037: the Map after the transactions, the highest amount kept.
\* Map.set on a name it holds keeps the place of the entry.
RECURSIVE HighestByName(_, _)
HighestByName(transactions, skillsMap) ==
    IF transactions = << >> THEN skillsMap
    ELSE LET transaction == Head(transactions)
             skillName == formatSkillName(transaction.type)
             at == MapIndex(skillsMap, skillName)
             entry == [name |-> skillName, type |-> transaction.type,
                       highestAmount |-> transaction.amount]
         IN  HighestByName(Tail(transactions),
                IF at = 0 THEN Append(skillsMap, entry)
                ELSE IF skillsMap[at].highestAmount < transaction.amount
                THEN [skillsMap EXCEPT ![at] = entry]
                ELSE skillsMap)

\* The mutant keeps the amount of the first transaction of a name.
RECURSIVE FirstByName(_, _)
FirstByName(transactions, skillsMap) ==
    IF transactions = << >> THEN skillsMap
    ELSE LET transaction == Head(transactions)
             skillName == formatSkillName(transaction.type)
         IN  FirstByName(Tail(transactions),
                IF MapIndex(skillsMap, skillName) = 0
                THEN Append(skillsMap, [name |-> skillName, type |-> transaction.type,
                                        highestAmount |-> transaction.amount])
                ELSE skillsMap)

\* Math.round(x) of an integer x
MathRound(x) == x

\* Lines 1046-1086: the percentages, the grades and the sort.
GradedByHighest(skills) ==
    LET processedSkills ==
            [i \in 1..Len(skills) |->
                LET directPercentage == MathMin(skills[i].highestAmount, 100)
                IN  [name |-> skills[i].name,
                     grade |-> Ratio(directPercentage, 100),
                     percentage |-> MathRound(directPercentage),
                     highestAmount |-> skills[i].highestAmount]]
    IN  SortDesc(processedSkills,
                 [i \in 1..Len(processedSkills) |-> processedSkills[i].highestAmount])

SkillsRejected == [state |-> "rejected", skills |-> << >>]

getSkillsWithHighestAmounts_firstSeen(resp) ==
    LET result == query(resp)
    IN  IF ~result.ok THEN SkillsRejected
        ELSE [state |-> "resolved",
              skills |-> GradedByHighest(FirstByName(result.result.data, << >>))]

\* getSkillsWithHighestAmounts(userId) on the response to its query, whose
\* data is the list of the user's skill transactions.
getSkillsWithHighestAmounts(resp) ==
    LET result == query(resp)
    IN  IF ~result.ok THEN SkillsRejected
        ELSE [state |-> "resolved",
              skills |-> GradedByHighest(HighestByName(result.result.data, << >>))]

MaxSkillTransactions == 3

SkillAmounts == { 0, 30, 70, 130 }

SkillTransactions ==
    { [type |-> t, amount |-> a] :
        t \in { << "s", "k", "i", "l", "l", "_", "g", "o" >>, << "s", "k", "i", "l", "l", "_", "x", "y", "z", "-", "t", "h", "i", "n", "g" >>, << "s", "k", "i", "l", "l", "_", "x", "y", "z", "_", "t", "h", "i", "n", "g" >> }, a \in SkillAmounts }

InitSkills ==
    /\ helperIn \in UNION { [1..n -> SkillTransactions] : n \in 0..MaxSkillTransactions }
    /\ NotCalled
    /\ HelperOthersIdle

ProcessHighestSkills ==
    /\ NotCalled
    /\ helperOut' = Returned([policy |-> "sum", state |-> "resolved",
                              skills |-> processHighestSkills(helperIn)])
    /\ UNCHANGED << helperIn, notHelperVars >>

SkillQueryResponses ==
    { GqlResponse(200, GqlBody(TRUE, helperIn, << >>)),
      GqlResponse(200, GqlBody(TRUE, helperIn, << << "permission", "denied" >> >>)),
      GqlResponse(500, GqlBody(FALSE, helperIn, << >>)) }

GetSkillsWithHighestAmounts ==
    /\ NotCalled
    /\ \E resp \in SkillQueryResponses :
        LET out == getSkillsWithHighestAmounts(resp)
        IN  helperOut' = Returned([policy |-> "max", state |-> out.state, skills |-> out.skills])
    /\ UNCHANGED << helperIn, notHelperVars >>

NextSkills ==
    \/ ProcessHighestSkills
    \/ GetSkillsWithHighestAmounts

SpecSkills == InitSkills /\ [][NextSkills]_vars

\* The normalized labels of the transactions.
LabelsOf(transactions) ==
    { formatSkillName(transactions[i].type) : i \in 1..Len(transactions) }

\* The transactions of a label, in input order.
WithLabel(transactions, label) ==
    SelectSeq(transactions, LAMBDA t : formatSkillName(t.type) = label)

\* C17: under the sum policy there is one aggregate per distinct label, its
\* amount is the sum of the amounts of the transactions of the label, and its
\* grade is that amount divided by the greatest aggregate amount, 0 when
\* that is not positive.
C17_SumPolicy ==
    (helperOut.done /\ helperOut.val.policy = "sum") =>
        LET skills == helperOut.val.skills
            greatest == MathMax([i \in 1..Len(skills) |->
                            SumAmounts(WithLabel(helperIn, skills[i].name))])
        IN  /\ Len(skills) = Cardinality(LabelsOf(helperIn))
            /\ { skills[i].name : i \in 1..Len(skills) } = LabelsOf(helperIn)
            /\ \A i \in 1..Len(skills) :
                /\ skills[i].totalAmount = SumAmounts(WithLabel(helperIn, skills[i].name))
                /\ skills[i].grade.den # 0
                /\ greatest > 0 =>
                    skills[i].grade.num * greatest = skills[i].totalAmount * skills[i].grade.den
                /\ greatest <= 0 => skills[i].grade.num = 0

\* Two spellings of one label are summed to 100, above another label of 70.
C17_Witness ==
    /\ helperOut.done /\ helperOut.val.policy = "sum"
    /\ Len(helperIn) = 3
    /\ Cardinality({ helperIn[i].type : i \in 1..3 }) = 3
    /\ Len(helperOut.val.skills) = 2
    /\ helperOut.val.skills[1].totalAmount = 100
    /\ helperOut.val.skills[2].grade = Ratio(70, 100)

\* C18: under the max policy there is one aggregate per distinct label, its
\* amount is the highest amount of the transactions of the label, its
\* percentage is min(amount, 100) and its grade is percentage / 100.
C18_MaxPolicy ==
    (helperOut.done /\ helperOut.val.policy = "max" /\ helperOut.val.state = "resolved") =>
        LET skills == helperOut.val.skills
        IN  /\ Len(skills) = Cardinality(LabelsOf(helperIn))
            /\ { skills[i].name : i \in 1..Len(skills) } = LabelsOf(helperIn)
            /\ \A i \in 1..Len(skills) :
                LET ofLabel == WithLabel(helperIn, skills[i].name)
                IN  /\ \E k \in 1..Len(ofLabel) : ofLabel[k].amount = skills[i].highestAmount
                    /\ \A k \in 1..Len(ofLabel) : ofLabel[k].amount <= skills[i].highestAmount
                    /\ skills[i].percentage =
                        (IF skills[i].highestAmount < 100 THEN skills[i].highestAmount ELSE 100)
                    /\ skills[i].grade.den # 0
                    /\ skills[i].grade.num * 100 = skills[i].percentage * skills[i].grade.den

\* A label seen with 30 and later with 130 has the amount 130, shown as 100.
C18_Witness ==
    /\ helperOut.done /\ helperOut.val.policy = "max" /\ helperOut.val.state = "resolved"
    /\ Len(helperIn) = 2
    /\ helperIn[1].amount = 30 /\ helperIn[2].amount = 130
    /\ Len(helperOut.val.skills) = 1
    /\ helperOut.val.skills[1].highestAmount = 130
    /\ helperOut.val.skills[1].percentage = 100

\* C19: the aggregates are in descending order of their amount, those of
\* equal amounts in the order in which their labels first occur in the input.
C19_RankedOrder ==
    (helperOut.done /\ helperOut.val.state = "resolved") =>
        LET skills == helperOut.val.skills
            amountOf(i) == IF helperOut.val.policy = "sum" THEN skills[i].totalAmount
                           ELSE skills[i].highestAmount
            firstOf(i) == CHOOSE k \in 1..Len(helperIn) :
                            /\ formatSkillName(helperIn[k].type) = skills[i].name
                            /\ \A j \in 1..(k - 1) :
                                formatSkillName(helperIn[j].type) # skills[i].name
        IN  \A i, j \in 1..Len(skills) :
                i < j => \/ amountOf(i) > amountOf(j)
                         \/ amountOf(i) = amountOf(j) /\ firstOf(i) < firstOf(j)

\* Two labels of equal highest amounts, the first of them seen again later.
C19_Witness ==
    /\ helperOut.done /\ helperOut.val.policy = "max" /\ helperOut.val.state = "resolved"
    /\ Len(helperIn) = 3
    /\ Len(helperOut.val.skills) = 2
    /\ helperOut.val.skills[1].highestAmount = 70
    /\ helperOut.val.skills[2].highestAmount = 70
    /\ helperOut.val.skills[1].name = formatSkillName(helperIn[1].type)
    /\ helperOut.val.skills[1].name = formatSkillName(helperIn[3].type)

(***************************************************************************)
(* The aggregation functions on an argument that is missing or empty       *)
(***************************************************************************)

\* An argument of a call: undefined, or an array.
Undefined == [given |-> FALSE, rows |-> << >>]
Given(rows) == [given |-> TRUE, rows |-> rows]

\* The outcome of a call: the value returned, or the TypeError raised by
\* reading a property of undefined.
Value(v) == [thrown |-> FALSE, value |-> v]
TypeErrorThrown == [thrown |-> TRUE, value |-> << >>]

\* arg || []
OrEmpty(arg) == IF arg.given THEN arg.rows ELSE << >>

\* filterXPData(xpData) starts with xpData.filter(...).
filterXPDataCall(arg) ==
    IF arg.given THEN Value(filterXPData(arg.rows)) ELSE TypeErrorThrown

\* calculateCumulativeXP(xpData) starts with [...xpData].
calculateCumulativeXPCall(arg) ==
    IF arg.given THEN Value(calculateCumulativeXP(arg.rows)) ELSE TypeErrorThrown

\* calculateSuccessRate(progressData) starts with progressData.filter(...).
calculateSuccessRateCall(arg) ==
    IF arg.given THEN Value(calculateSuccessRate(arg.rows)) ELSE TypeErrorThrown

\* processHighestSkills(skillTransactions) starts with
\* skillTransactions.forEach(...).
processHighestSkillsCall(arg) ==
    IF arg.given THEN Value(processHighestSkills(arg.rows)) ELSE TypeErrorThrown

\* getUserAudits reads result?.data?.transaction || [] and
\* result?.data?.down_transactions || [] from the body of the response.
getUserAuditsCall(up, down) ==
    Value(getUserAudits(GqlResponse(200,
        GqlBody(TRUE, [transaction |-> OrEmpty(up), down_transactions |-> OrEmpty(down)], << >>))))

MaxRows == 1

\* The arguments: undefined, or an array of at most MaxRows records.
Arguments(records) ==
    { Undefined } \cup { Given(rows) : rows \in UNION { [1..n -> records] : n \in 0..MaxRows } }

InitAbsent ==
    /\ helperIn \in
        { [fn |-> "filterXPData", arg |-> a] : a \in Arguments(XPRecords) }
        \cup { [fn |-> "calculateCumulativeXP", arg |-> a] : a \in Arguments(TimedXPRecords) }
        \cup { [fn |-> "calculateSuccessRate", arg |-> a] : a \in Arguments(ProgressRecords) }
        \cup { [fn |-> "processHighestSkills", arg |-> a] : a \in Arguments(SkillTransactions) }
        \cup { [fn |-> "getUserAudits", arg |-> [up |-> u, down |-> d]] :
                u \in Arguments({ [amount |-> a] : a \in UpAmounts }),
                d \in Arguments({ [amount |-> a] : a \in DownAmounts }) }
    /\ NotCalled
    /\ HelperOthersIdle

Called(fn, outcome) ==
    /\ NotCalled
    /\ helperIn.fn = fn
    /\ helperOut' = Returned(outcome)
    /\ UNCHANGED << helperIn, notHelperVars >>

CallFilterXPData == Called("filterXPData", filterXPDataCall(helperIn.arg))

CallCalculateCumulativeXP ==
    Called("calculateCumulativeXP", calculateCumulativeXPCall(helperIn.arg))

CallCalculateSuccessRate ==
    Called("calculateSuccessRate", calculateSuccessRateCall(helperIn.arg))

CallProcessHighestSkills ==
    Called("processHighestSkills", processHighestSkillsCall(helperIn.arg))

CallGetUserAudits ==
    Called("getUserAudits", getUserAuditsCall(helperIn.arg.up, helperIn.arg.down))

NextAbsent ==
    \/ CallFilterXPData
    \/ CallCalculateCumulativeXP
    \/ CallCalculateSuccessRate
    \/ CallProcessHighestSkills
    \/ CallGetUserAudits

SpecAbsent == InitAbsent /\ [][NextAbsent]_vars

\* The argument holds no data: it is undefined or the empty array.
NoData(arg) == ~arg.given \/ arg.rows = << >>

AbsentInput ==
    IF helperIn.fn = "getUserAudits"
    THEN NoData(helperIn.arg.up) /\ NoData(helperIn.arg.down)
    ELSE NoData(helperIn.arg)

\* The value is the empty list, the all-zero success summary or the all-zero
\* audit summary.
ZeroValued(fn, value) ==
    CASE fn = "calculateSuccessRate" ->
            /\ value.total = 0 /\ value.passed = 0 /\ value.failed = 0
            /\ value.successRate.num = 0
      [] fn = "getUserAudits" ->
            /\ value.auditsGiven = 0 /\ value.auditsReceived = 0
            /\ value.auditRatio.num = 0
      [] OTHER -> value = << >>

\* C21: every aggregation function called on missing or empty input returns
\* an empty or zero-valued result and does not throw.
C21_AbsentInputHandled ==
    (helperOut.done /\ AbsentInput) =>
        /\ ~helperOut.val.thrown
        /\ ZeroValued(helperIn.fn, helperOut.val.value)

(***************************************************************************)
(* filterXPData applied to its own result                                  *)
(***************************************************************************)

InitFilterTwice ==
    /\ helperIn \in UNION { [1..n -> XPRecords] : n \in 0..MaxXPRecords }
    /\ NotCalled
    /\ HelperOthersIdle

\* filterXPData(xpData)
FilterFirst ==
    /\ NotCalled
    /\ helperOut' = Returned([calls |-> 1, first |-> filterXPData(helperIn), second |-> << >>])
    /\ UNCHANGED << helperIn, notHelperVars >>

\* filterXPData(filterXPData(xpData))
FilterSecond ==
    /\ helperOut.done
    /\ helperOut.val.calls = 1
    /\ helperOut' = Returned([calls |-> 2, first |-> helperOut.val.first,
                              second |-> filterXPData(helperOut.val.first)])
    /\ UNCHANGED << helperIn, notHelperVars >>

NextFilterTwice ==
    \/ FilterFirst
    \/ FilterSecond

SpecFilterTwice == InitFilterTwice /\ [][NextFilterTwice]_vars

\* C22: filterXPData applied to its own result returns that result unchanged.
C22_FilterIdempotent ==
    (helperOut.done /\ helperOut.val.calls = 2) => helperOut.val.second = helperOut.val.first

\* The second application on a result that lost a raid and kept a record.
C22_Witness ==
    /\ helperOut.done /\ helperOut.val.calls = 2
    /\ Len(helperIn) = 2
    /\ helperIn[1].type = "raid"
    /\ Len(helperOut.val.first) = 1
    /\ helperOut.val.second = << helperIn[2] >>

(***************************************************************************)
(* App.init on a stored token with an expiry time                          *)
(***************************************************************************)

MaxNow == 4

\* The page is opened at the time helperIn.now with a session store that is
\* empty or was left by an earlier page: the stored token has no expiry
\* time, or one of 1 or 3.
InitExpiry ==
    /\ token = << >>
    /\ user = JNull
    /\ \E t \in { TokenSub, TokenExp1, TokenExp3, << >> } :
        /\ ssToken = t
        /\ ssUser = IF t = << >> THEN << >> ELSE JSONStringify(decodeJWT(t))
    /\ authCall = NoCall
    /\ JwtIdle /\ QueryIdle /\ LoadIdle
    /\ rankIn \in LoadRankInputs
    /\ rankPc = "idle"
    /\ rankPending = {}
    /\ rankData = NoRows
    /\ rankThrown = NoError
    /\ rankOut = RankFallback
    /\ helperIn \in { [now |-> n] : n \in 0..MaxNow }
    /\ helperOut = [done |-> FALSE, val |-> << >>]
    /\ SessionIdle

NextExpiry ==
    \/ AppInit
    \/ IsAuthenticated
    \/ GetToken
    \/ GetUser

SpecExpiry == InitExpiry /\ [][NextExpiry]_vars

\* The number a numeric claim of a payload denotes.
NumericDate(text) ==
    CHOOSE n \in 0..9 : text = << "0", "1", "2", "3", "4", "5", "6", "7", "8", "9" >>[n + 1]

\* The expiry time of the stored token has passed.
StoredTokenExpired ==
    /\ ssToken # << >>
    /\ Field(decodeJWT(ssToken), "exp") # ""
    /\ NumericDate(Field(decodeJWT(ssToken), "exp")) < helperIn.now

\* C23: a stored token whose expiry time has passed is not accepted by
\* isAuthenticated(): the service does not take it over, and App.init shows
\* the login view and starts no profile load from it.
C23_ExpiredTokenRejected ==
    StoredTokenExpired =>
        /\ token = << >>
        /\ authCall.op # "none" => ~isAuthenticated
        /\ loadPc # "start" => (loadPc = "login" /\ currentSection = "login" /\ ~overlay)

(***************************************************************************)
(* Logins, logouts, timers and profile loads of one page                   *)
(***************************************************************************)

MaxLogins == 3

\* The page after App.init in a tab whose session store is empty: the login
\* view is shown.
InitSessions ==
    /\ AuthIdle /\ JwtIdle /\ QueryIdle /\ RankIdle /\ LoadIdle /\ HelperIdle /\ SessionIdle

\* The responses of the credential exchange, one of each kind: a token, the
\* statuses 401, 403 and 500, a network failure, a body that is no JSON, the
\* body null, and objects that hold the token where extractToken does not
\* look.
LoginResponses ==
    { Response(200, StatusText(200), Quoted(TokenSub)),
      Response(401, StatusText(401), NotJson),
      Response(403, StatusText(403), NotJson),
      Response(500, StatusText(500), NotJson),
      NetworkFailure,
      Response(200, StatusText(200), NotJson),
      Response(200, StatusText(200), Serialize(BodyNull)),
      Response(200, StatusText(200), Serialize(BodyObject(<< "other" >>, TokenSub))),
      Response(200, StatusText(200), Serialize(BodyObject(<< "data", "authToken" >>, TokenSub))) }

\* The messages of handleLogin, as sequences of words.
UiInvalidCredentials ==
    << "Invalid", "username/email", "or", "password.", "Please", "check", "your", "credentials." >>
UiForbidden ==
    << "Access", "forbidden.", "Please", "check", "your", "account", "permissions." >>
UiCannotConnect ==
    << "Cannot", "connect", "to", "server.", "Please", "check", "your", "internet", "connection." >>
UiUnavailable ==
    << "Authentication", "service", "temporarily", "unavailable.", "Please", "try", "again", "later." >>

\* app.js:89-105: the message handleLogin shows for the error authenticate
\* threw.  The texts it looks for are whole words of the messages.
loginErrorMessage(message) ==
    IF includes(message, << "401" >>) \/ includes(message, << "Invalid" >>)
    THEN UiInvalidCredentials
    ELSE IF includes(message, << "403" >>) THEN UiForbidden
    ELSE IF includes(message, << "NetworkError" >>)
            \/ includes(message, << "Failed", "to", "fetch" >>)
    THEN UiCannotConnect
    ELSE IF includes(message, << "CORS" >>) THEN UiUnavailable
    ELSE message

\* app.js:59-71: the login form is submitted and the message of the form is
\* hidden; the form is in the login
\* section, under the loading overlay when that is shown, and its button is
\* disabled while a login is pending.
SubmitLogin ==
    /\ currentSection = "login"
    /\ ~overlay
    /\ loginPc = "idle"
    /\ logins < MaxLogins
    /\ loginPc' = "pending"
    /\ logins' = logins + 1
    /\ loginError' = << >>
    /\ UNCHANGED << authVars, jwtVars, queryVars, rankVars, loadVars, helperVars,
                    session, profileTimers, loads, pendingLogouts, rendered >>

\* app.js:73-110: authenticate settles; on success showProfile is scheduled,
\* on failure the message of the error is shown in the form.
LoginResponse ==
    /\ loginPc = "pending"
    /\ loginPc' = "idle"
    /\ \E resp \in LoginResponses :
        /\ authenticate(resp)
        /\ IF authenticateOutcome(resp).ok
           THEN /\ session' = logins
                /\ profileTimers' = profileTimers \cup { logins }
                /\ shown' = shown \cup { "success" }
                /\ UNCHANGED loginError
           ELSE /\ loginError' = loginErrorMessage(authenticateOutcome(resp).error)
                /\ UNCHANGED << session, profileTimers, shown >>
    /\ UNCHANGED << jwtVars, queryVars, rankVars, helperVars,
                    currentSection, overlay, loadPc, ops, failed, panels, errorBlock,
                    logoutTimer, logins, loads, pendingLogouts, rendered >>

\* app.js:158-209: showProfile run by the timer of handleLogin, up to the
\* await of loadProfile; without a user id its catch block schedules the
\* logout.  A call of loadProfile is [load, session, abandoned]: the login
\* whose timer started it, the session it was started in and, as history,
\* whether handleLogout has run since.
ShowProfileTimer ==
    \E t \in profileTimers :
        /\ profileTimers' = profileTimers \ { t }
        /\ currentSection' = "profile"
        /\ getUserCall
        /\ IF getUserId(getUser) = ""
           THEN /\ shown' = shown \cup { "error" }
                /\ pendingLogouts' =
                    pendingLogouts \cup { [load |-> t, session |-> session, abandoned |-> FALSE] }
                /\ overlay' = FALSE
                /\ UNCHANGED loads
           ELSE /\ loads' = loads \cup { [load |-> t, session |-> session, abandoned |-> FALSE] }
                /\ overlay' = TRUE
                /\ UNCHANGED << shown, pendingLogouts >>
        /\ UNCHANGED << jwtVars, queryVars, rankVars, helperVars,
                        loadPc, ops, failed, panels, errorBlock, logoutTimer,
                        session, logins, loginPc, rendered, loginError >>

\* profile.js:15-66, app.js:196-209: getUserProfile settles.  Resolved, the
\* panels are rendered from its data; rejected, the error block is written
\* and the logout is scheduled; in both cases the overlay is hidden.
LoadSettles ==
    \E l \in loads : \E outcome \in { "resolved", "rejected" } :
        /\ loads' = loads \ { l }
        /\ overlay' = FALSE
        /\ IF outcome = "resolved"
           THEN /\ rendered' = [p \in AllPanels |-> l.session]
                /\ errorBlock' = FALSE
                /\ UNCHANGED << shown, pendingLogouts >>
           ELSE /\ rendered' = [rendered EXCEPT !["userInfo"] = 0]
                /\ errorBlock' = TRUE
                /\ shown' = shown \cup { "error" }
                /\ pendingLogouts' = pendingLogouts \cup { l }
        /\ UNCHANGED << authVars, jwtVars, queryVars, rankVars, helperVars,
                        currentSection, loadPc, ops, failed, panels, logoutTimer,
                        session, logins, loginPc, profileTimers, loginError >>

\* app.js:113-129: handleLogout.  It leaves the calls in flight and the
\* panels alone.
handleLogout ==
    /\ logout
    /\ session' = 0
    /\ loads' = { [l EXCEPT !.abandoned = TRUE] : l \in loads }
    /\ currentSection' = "login"
    /\ shown' = shown \cup { "success" }

\* The logout button of the profile section is clicked.
ClickLogout ==
    /\ currentSection = "profile"
    /\ ~overlay
    /\ handleLogout
    /\ UNCHANGED << jwtVars, queryVars, rankVars, helperVars,
                    overlay, loadPc, ops, failed, panels, errorBlock, logoutTimer,
                    logins, loginPc, profileTimers, pendingLogouts, rendered, loginError >>

\* app.js:201-203: the timer of a failed showProfile runs handleLogout.
LogoutTimerFires ==
    \E t \in pendingLogouts :
        /\ pendingLogouts' = pendingLogouts \ { t }
        /\ handleLogout
        /\ UNCHANGED << jwtVars, queryVars, rankVars, helperVars,
                        overlay, loadPc, ops, failed, panels, errorBlock, logoutTimer,
                        logins, loginPc, profileTimers, rendered, loginError >>

NextSessions ==
    \/ SubmitLogin
    \/ LoginResponse
    \/ ShowProfileTimer
    \/ LoadSettles
    \/ ClickLogout
    \/ LogoutTimerFires

SpecSessions == InitSessions /\ [][NextSessions]_vars

\* A call of loadProfile that settles after a logout renders no data.
AbandonedRendersNothing ==
    \A l \in loads :
        (l \notin loads' /\ l.abandoned) =>
            \A p \in AllPanels : rendered'[p] = rendered[p] \/ rendered'[p] = 0

\* The panels of the profile view of a logged-in session hold nothing or the
\* data of that session's load.
PanelsOfOwnSession ==
    (session # 0 /\ currentSection = "profile") =>
        \A p \in AllPanels : rendered[p] \in { 0, session }

\* C24: a load started before a logout never renders its data after that
\* logout, and the panels displayed for a logged-in session are those of the
\* load of that session.
C24_LoadsIndependent ==
    [][AbandonedRendersNothing]_vars /\ []PanelsOfOwnSession

\* C25: the logout that a failed profile load schedules never clears the
\* token of a session made by a later login: when its timer ends a session,
\* it is the session of the load that failed.
C25_TimerEndsOwnSession ==
    [][\A t \in pendingLogouts :
            (t \notin pendingLogouts' /\ session # 0 /\ session' = 0) => t.session = session]_vars

\* C27: the form shows the invalid-credentials message only when the
\* exchange was rejected with the status 401; a malformed or unexpected
\* response, a forbidden response and a network failure are shown with
\* another message.
C27_InvalidCredentialsOnlyFor401 ==
    [][(loginPc = "pending" /\ loginPc' = "idle" /\ loginError' = UiInvalidCredentials) =>
            (~authCall'.resp.net /\ authCall'.resp.status = 401)]_vars

(***************************************************************************)
(* The frame of a failed authenticate                                      *)
(***************************************************************************)

\* C26: an authenticate call that fails (401, 403, another non-2xx status, a
\* network error, an unparsable body or no token in the body) leaves the
\* token and the identity of the service and both entries of the session
\* store as they were.
C26_FailedAuthenticateChangesNothing ==
    [][(authCall'.op = "authenticate" /\ ~authCall'.outcome.ok) =>
            UNCHANGED << token, user, ssToken, ssUser >>]_vars

\* A call answered with 401 while a session is held and stored.
C26_Witness ==
    /\ authCall.op = "authenticate"
    /\ ~authCall.outcome.ok
    /\ authCall.resp.status = 401
    /\ token = TokenSub
    /\ ssToken = TokenSub
    /\ Truthy(user)
    /\ ssUser # << >>

(***************************************************************************)
(* getUserSkills and the skills panel                                      *)
(***************************************************************************)

\* The aggregates as the panel reads them: object.name, object.type, grade.
SkillObjects(skills, objectType) ==
    [i \in 1..Len(skills) |->
        [name |-> skills[i].name, objectType |-> objectType, grade |-> skills[i].grade]]

\* graphql.js:343-438: getUserSkillsOriginal on the responses to its nested
\* and its direct query; [] when a query fails or both find no skill.
getUserSkillsOriginal(nestedResp, directResp) ==
    LET nested == query(nestedResp)
        direct == query(directResp)
    IN  IF ~nested.ok THEN << >>
        ELSE IF Len(nested.result.data) > 0
        THEN SkillObjects(processHighestSkills(nested.result.data), "highest_skill")
        ELSE IF ~direct.ok THEN << >>
        ELSE IF Len(direct.result.data) > 0
        THEN SkillObjects(processHighestSkills(direct.result.data), "highest_skill")
        ELSE << >>

\* graphql.js:318-336: getUserSkills returns what getSkillsWithHighestAmounts
\* returns, and falls back to getUserSkillsOriginal when that throws.
getUserSkills(resp, nestedResp, directResp) ==
    LET highest == getSkillsWithHighestAmounts(resp)
    IN  IF highest.state = "resolved"
        THEN SkillObjects(highest.skills, "highest_amount_skill")
        ELSE getUserSkillsOriginal(nestedResp, directResp)

\* profile.js:284: the object types renderSkillsSection lets through.
RenderedObjectTypes ==
    { "skill", "derived_skill", "module_skill", "zone01_skill", "progress_skill",
      "technology", "technology_progress", "technology_object", "highest_skill" }

\* Math.round(grade * 100) of a grade num / den that is not negative.
RoundedPercentage(grade) == (200 * grade.num + grade.den) \div (2 * grade.den)

\* profile.js:283-295, 310-322: the rows of the skills list; the panel says
\* 'No skills data available' when there is none.
renderSkillsSection(skills) ==
    LET kept == SelectSeq(skills, LAMBDA skill : skill.objectType \in RenderedObjectTypes)
        processedSkills ==
            [i \in 1..Len(kept) |->
                [name |-> kept[i].name, percentage |-> RoundedPercentage(kept[i].grade)]]
    IN  SortDesc(processedSkills,
                 [i \in 1..Len(processedSkills) |-> processedSkills[i].percentage])

\* The responses of the endpoint to a skills query that finds the rows.
SkillResponsesWith(rows) ==
    { GqlResponse(200, GqlBody(TRUE, rows, << >>)),
      GqlResponse(200, GqlBody(TRUE, rows, << << "permission", "denied" >> >>)),
      GqlResponse(500, GqlBody(FALSE, rows, << >>)) }

InitSkillsPanel ==
    /\ helperIn \in UNION { [1..n -> SkillTransactions] : n \in 0..MaxSkillTransactions }
    /\ helperOut = [done |-> FALSE, val |-> [stage |-> "start", skills |-> << >>, rows |-> << >>]]
    /\ HelperOthersIdle

\* getUserSkills(userId) of the profile load settles.  The user's skill
\* transactions are helperIn; the nested query finds them or none.
GetUserSkills ==
    /\ helperOut.val.stage = "start"
    /\ \E resp \in SkillResponsesWith(helperIn) :
       \E nestedResp \in SkillResponsesWith(helperIn) \cup SkillResponsesWith(<< >>) :
       \E directResp \in SkillResponsesWith(helperIn) :
            helperOut' = [done |-> FALSE,
                          val |-> [stage |-> "loaded",
                                   skills |-> getUserSkills(resp, nestedResp, directResp),
                                   rows |-> << >>]]
    /\ UNCHANGED << helperIn, notHelperVars >>

\* renderSkillsSection() on the skills of the profile data.
RenderSkillsSection ==
    /\ helperOut.val.stage = "loaded"
    /\ helperOut' = Returned([stage |-> "rendered",
                              skills |-> helperOut.val.skills,
                              rows |-> renderSkillsSection(helperOut.val.skills)])
    /\ UNCHANGED << helperIn, notHelperVars >>

NextSkillsPanel ==
    \/ GetUserSkills
    \/ RenderSkillsSection

SpecSkillsPanel == InitSkillsPanel /\ [][NextSkillsPanel]_vars

\* C28: when getUserSkills returns a non-empty list, the skills panel has one
\* row for each of its aggregates and does not say 'No skills data
\* available'.
C28_EverySkillListed ==
    (helperOut.done /\ helperOut.val.skills # << >>) =>
        /\ helperOut.val.rows # << >>
        /\ Len(helperOut.val.rows) = Len(helperOut.val.skills)
        /\ { helperOut.val.rows[i].name : i \in 1..Len(helperOut.val.rows) }
            = { helperOut.val.skills[i].name : i \in 1..Len(helperOut.val.skills) }

(***************************************************************************)
(* GraphsComponent.renderXPProgressGraph: the scales of the XP line        *)
(***************************************************************************)

\* graphs.js:54-59: margin.left, margin.top and the size of the chart.
MarginLeft == 60
MarginTop == 20
ChartWidth == 500 - 60 - 30
ChartHeight == 300 - 20 - 50

\* offset + num / den * size as a number: [finite, num, den], not finite
\* (NaN or an infinity) when den is 0.
Scaled(offset, num, den, size) ==
    IF den = 0 THEN [finite |-> FALSE, num |-> 0, den |-> 0]
    ELSE [finite |-> TRUE, num |-> offset * den + num * size, den |-> den]

\* graphs.js:43-90: 'No XP data available' for the empty series, else the
\* scales and the points of the line.
renderXPProgressGraph(xpData) ==
    LET filteredXP == filterXPData(xpData)
        cumulativeData == calculateCumulativeXP(filteredXP)
        maxXP == MathMax([i \in 1..Len(cumulativeData) |-> cumulativeData[i].cumulativeXP])
        minDate == 0 - MathMax([i \in 1..Len(cumulativeData) |-> 0 - cumulativeData[i].createdAt])
        maxDate == MathMax([i \in 1..Len(cumulativeData) |-> cumulativeData[i].createdAt])
        dateRange == maxDate - minDate
    IN  IF Len(cumulativeData) = 0
        THEN [noData |-> TRUE, cumulativeData |-> cumulativeData,
              maxXP |-> 0, dateRange |-> 0, points |-> << >>]
        ELSE [noData |-> FALSE, cumulativeData |-> cumulativeData,
              maxXP |-> maxXP, dateRange |-> dateRange,
              points |->
                [i \in 1..Len(cumulativeData) |->
                    [x |-> Scaled(MarginLeft, cumulativeData[i].createdAt - minDate,
                                  dateRange, ChartWidth),
                     y |-> Scaled(MarginTop, maxXP - cumulativeData[i].cumulativeXP,
                                  maxXP, ChartHeight)]]]

InitXPGraph ==
    /\ helperIn \in UNION { [1..n -> TimedXPRecords] : n \in 0..MaxXPPoints }
    /\ NotCalled
    /\ HelperOthersIdle

RenderXPProgressGraph ==
    /\ NotCalled
    /\ helperOut' = Returned(renderXPProgressGraph(helperIn))
    /\ UNCHANGED << helperIn, notHelperVars >>

NextXPGraph == RenderXPProgressGraph

SpecXPGraph == InitXPGraph /\ [][NextXPGraph]_vars

\* C29: the empty cumulative series is presented as 'no data'; for every
\* other series the date range and the greatest cumulative XP are not 0 and
\* every coordinate of the line is a finite number.
C29_ScalesWellDefined ==
    helperOut.done =>
        /\ helperOut.val.cumulativeData = << >> => helperOut.val.noData
        /\ helperOut.val.cumulativeData # << >> =>
            /\ ~helperOut.val.noData
            /\ helperOut.val.dateRange # 0
            /\ helperOut.val.maxXP # 0
            /\ \A i \in 1..Len(helperOut.val.points) :
                helperOut.val.points[i].x.finite /\ helperOut.val.points[i].y.finite

(***************************************************************************)
(* GraphsComponent.renderSuccessRateGraph: the slices of the pie           *)
(***************************************************************************)

\* graphs.js:148-221: 'No project data available' without projects, else
\* the two slices as fractions of the circle (angle / 2 pi) and the
\* percentage shown on the failed slice, 100 - successRate.
renderSuccessRateGraph(progressData) ==
    LET successStats == calculateSuccessRate(progressData)
    IN  IF successStats.total = 0
        THEN [noData |-> TRUE, successStats |-> successStats,
              passedAngle |-> Ratio(0, 1), failedAngle |-> Ratio(0, 1),
              failedPercentage |-> Ratio(0, 1)]
        ELSE [noData |-> FALSE, successStats |-> successStats,
              passedAngle |-> Ratio(successStats.passed, successStats.total),
              failedAngle |-> Ratio(successStats.failed, successStats.total),
              failedPercentage |->
                Ratio(100 * successStats.successRate.den - successStats.successRate.num,
                      successStats.successRate.den)]

InitSuccessGraph ==
    /\ helperIn \in UNION { [1..n -> ProgressRecords] : n \in 0..MaxProgressRecords }
    /\ NotCalled
    /\ HelperOthersIdle

RenderSuccessRateGraph ==
    /\ NotCalled
    /\ helperOut' = Returned(renderSuccessRateGraph(helperIn))
    /\ UNCHANGED << helperIn, notHelperVars >>

NextSuccessGraph == RenderSuccessRateGraph

SpecSuccessGraph == InitSuccessGraph /\ [][NextSuccessGraph]_vars

\* C30: in every success summary passed + failed = total; the two slices of
\* the pie cover the circle and the percentage shown on the failed slice is
\* failed / total * 100.
C30_SlicesCoverCircle ==
    helperOut.done =>
        LET stats == helperOut.val.successStats
            passedAngle == helperOut.val.passedAngle
            failedAngle == helperOut.val.failedAngle
            failedShown == helperOut.val.failedPercentage
        IN  /\ stats.passed + stats.failed = stats.total
            /\ ~helperOut.val.noData =>
                /\ passedAngle.num * failedAngle.den + failedAngle.num * passedAngle.den
                    = passedAngle.den * failedAngle.den
                /\ failedShown.num * stats.total = stats.failed * 100 * failedShown.den

====
